---------------------------- MODULE Spec2Model ----------------------------
(***************************************************************************)
(* NEXUS_ENA: the API Handler (src/lambda/api_handler/lambda_function.py), *)
(* the API Data Collector (src/lambda/data_collector/lambda_function.py)   *)
(* the SFTP Collector (src/ecs/data_collector/sftp_data_collector.py) and   *)
(* the Weekly Analyzer (src/ecs/analysis/run_analysis.py)                  *)
(* as state machines over a shared object store, metadata store and clock. *)
(*                                                                         *)
(* Python values are represented as follows.                               *)
(*   - None / an optional value: a sequence of length 0 or 1 (None, Some). *)
(*   - a dict: a record; a missing key is a name outside its DOMAIN.       *)
(*   - a str that the code takes apart: a sequence of one-character        *)
(*     strings (query parameters) or of path segments (the request path).  *)
(*   - the result of a call that may raise: Ret(v) or Raise(e).            *)
(***************************************************************************)
EXTENDS Integers, Sequences, FiniteSets, TLC

VARIABLES
    \* ---- API Handler: one invocation of lambda_handler at a time
    apiPc,          \* "idle" | "received" | "done"
    event,          \* the API Gateway event being handled
    response,       \* the dict lambda_handler returned
    escaped,        \* the exception that left lambda_handler, or "none"
    storeCalls      \* the metadata-store / object-store calls of the invocation,
                    \* in order, each with whether it succeeded

VARIABLES
    \* ---- the shared stores and the clock
    now,            \* the clock as last read, in ticks (TicksPerSecond to a second)
    ssmParameters,  \* the optional parameters present in the parameter store
    s3Objects,      \* the bucket: one object per key
    metadataTable,  \* the metadata table: one item per (partition, timestamp)
    uploads,        \* history: every put_object that succeeded, with its attempt
    putItemCalls,   \* history: every put_item that was called, with its attempt
    faultsLeft      \* how many more calls to the outside may fail

VARIABLES
    \* ---- API Data Collector: the runs of its lambda_handler
    active,         \* the runs that were triggered
    collector       \* per run: position, locals of lambda_handler and of
                    \* process_data_source, and the response

VARIABLES
    \* ---- SFTP Collector: one run of main()
    sftp            \* position, locals of collect_daily_data, the two
                    \* connections, and how the process ended

VARIABLES
    \* ---- Weekly Analyzer: one run of main()
    analyzer        \* position, locals of run_weekly_analysis, and how the
                    \* process ended

VARIABLES
    \* ---- one call of an analysis pass of the Weekly Analyzer on a table
    passRun         \* position, the table(s) given and the dict returned

apiVars == <<apiPc, event, response, escaped, storeCalls>>
passVars == <<passRun>>
analyzerVars == <<analyzer>>
sftpVars == <<sftp>>
storeVars == <<now, ssmParameters, s3Objects, metadataTable, uploads, putItemCalls, faultsLeft>>
collVars == <<active, collector>>

vars == <<apiVars, storeVars, collVars, sftpVars, analyzerVars, passVars>>

-----------------------------------------------------------------------------
(* Python helpers *)

None == <<>>
Some(v) == <<v>>

Ret(v) == [exc |-> FALSE, val |-> v]
Raise(e) == [exc |-> TRUE, err |-> e]

Digits == {"0", "1", "2", "3", "4", "5", "6", "7", "8", "9"}

DigitValue(c) ==
    CASE c = "0" -> 0 [] c = "1" -> 1 [] c = "2" -> 2 [] c = "3" -> 3
      [] c = "4" -> 4 [] c = "5" -> 5 [] c = "6" -> 6 [] c = "7" -> 7
      [] c = "8" -> 8 [] c = "9" -> 9

RECURSIVE DecimalValue(_)
DecimalValue(s) ==
    IF s = <<>> THEN 0
    ELSE 10 * DecimalValue(SubSeq(s, 1, Len(s) - 1)) + DigitValue(s[Len(s)])

\* the characters int() skips at both ends of its argument: the six ASCII
\* ones, NEL, the no-break space and the Unicode space separators. A
\* character with no escape in a TLA+ string stands as its code point.
\* The separators U+001C..U+001F are not among them (str.strip() removes
\* them, int() raises ValueError on them).
Whitespace ==
    {" ", "\t", "\n", "\f", "\r", "U+000B", "U+0085", "U+00A0", "U+1680",
     "U+2000", "U+2001", "U+2002", "U+2003", "U+2004", "U+2005", "U+2006",
     "U+2007", "U+2008", "U+2009", "U+200A", "U+2028", "U+2029", "U+202F",
     "U+205F", "U+3000"}

\* int() skipping whitespace at the front and at the back of its argument
RECURSIVE lstrip(_)
lstrip(s) == IF s # <<>> /\ Head(s) \in Whitespace THEN lstrip(Tail(s)) ELSE s

RECURSIVE rstrip(_)
rstrip(s) ==
    IF s # <<>> /\ s[Len(s)] \in Whitespace THEN rstrip(SubSeq(s, 1, Len(s) - 1)) ELSE s

\* the digits of a literal: one or more decimal digits, single underscores
\* allowed between two digits
IsDigitPart(s) ==
    /\ Len(s) > 0
    /\ \A i \in 1..Len(s) : s[i] \in Digits \cup {"_"}
    /\ s[1] \in Digits /\ s[Len(s)] \in Digits
    /\ \A i \in 1..(Len(s) - 1) : ~(s[i] = "_" /\ s[i + 1] = "_")

\* Python's int(str), base 10, on strings of ASCII characters and the
\* characters of Whitespace: whitespace at both ends is skipped, then an
\* optional sign, then the digits; anything else (the empty string, a
\* string of whitespace only and whitespace after the sign included)
\* raises ValueError.
int(s) ==
    LET body   == rstrip(lstrip(s))
        signed == body # <<>> /\ body[1] \in {"+", "-"}
        digits == IF signed THEN Tail(body) ELSE body
        value  == DecimalValue(SelectSeq(digits, LAMBDA c : c \in Digits))
    IN  IF IsDigitPart(digits)
        THEN Ret(IF signed /\ body[1] = "-" THEN 0 - value ELSE value)
        ELSE Raise("ValueError")

-----------------------------------------------------------------------------
(* Python floats: IEEE 754 binary64, for the values the program computes   *)
(* (finite, not negative).  A float is its 53-bit significand, most        *)
(* significant bit first, and the exponent of its last bit: the value is   *)
(* m * 2^e.  Zero has the empty significand.  Every operation gives the    *)
(* exact result rounded to nearest, ties to even.                          *)

\* sys.float_info.mant_dig
MantissaBits == 53

\* the extra quotient bits a division is carried to before rounding
GuardBits == 32

FloatZero == [m |-> <<>>, e |-> 0]

Zeros(k) == [i \in 1..k |-> 0]

\* the binary digits of a natural number, most significant first
RECURSIVE Bits(_)
Bits(n) == IF n = 0 THEN <<>> ELSE Append(Bits(n \div 2), n % 2)

\* without its leading zeros
Strip(b) ==
    LET ones == {i \in 1..Len(b) : b[i] = 1}
    IN  IF ones = {} THEN <<>>
        ELSE SubSeq(b, CHOOSE i \in ones : \A j \in ones : i <= j, Len(b))

\* a + b on the digits lo..hi of two sequences of one length, with the
\* carry coming in from the right: the digits of the sum and the carry out
JoinSum(left, right) == [digits |-> left.digits \o right.digits, carry |-> left.carry]

RECURSIVE AddAligned(_, _, _, _, _)
AddAligned(a, b, lo, hi, carry) ==
    IF lo > hi THEN [digits |-> <<>>, carry |-> carry]
    ELSE IF lo = hi
    THEN IF a[lo] + b[lo] + carry >= 2
         THEN [digits |-> <<(a[lo] + b[lo] + carry) % 2>>, carry |-> 1]
         ELSE [digits |-> <<a[lo] + b[lo] + carry>>, carry |-> 0]
    ELSE LET mid   == (lo + hi) \div 2
             right == AddAligned(a, b, mid + 1, hi, carry)
         IN  IF right.carry = 1
             THEN JoinSum(AddAligned(a, b, lo, mid, 1), right)
             ELSE JoinSum(AddAligned(a, b, lo, mid, 0), right)

AddBits(a, b) ==
    LET n  == IF Len(a) > Len(b) THEN Len(a) ELSE Len(b)
        a1 == Zeros(n - Len(a)) \o a
        b1 == Zeros(n - Len(b)) \o b
        sum == AddAligned(a1, b1, 1, n, 0)
    IN  IF sum.carry = 1 THEN <<1>> \o sum.digits ELSE sum.digits

\* b * k for a natural number k
RECURSIVE MulBits(_, _)
MulBits(b, k) ==
    IF k = 0 THEN <<>>
    ELSE LET twice == Append(MulBits(b, k \div 2), 0)
         IN  IF k % 2 = 1 THEN AddBits(twice, b) ELSE twice

\* long division by a natural number d > 0 over the digits lo..hi of a
\* sequence, with the remainder r coming in from the left: the digits of
\* the quotient and the remainder going out
RECURSIVE DivBits(_, _, _, _, _)
DivBits(b, d, lo, hi, r) ==
    IF lo > hi THEN [q |-> <<>>, r |-> r]
    ELSE IF lo = hi
    THEN LET rem == 2 * r + b[lo]
         IN  IF rem >= d THEN [q |-> <<1>>, r |-> rem - d] ELSE [q |-> <<0>>, r |-> rem]
    ELSE LET mid   == (lo + hi) \div 2
             left  == DivBits(b, d, lo, mid, r)
             right == DivBits(b, d, mid + 1, hi, left.r)
         IN  [q |-> left.q \o right.q, r |-> right.r]

\* the float nearest to (b + f) * 2^e, where b is a digit sequence and
\* 0 <= f < 1 with sticky = (f > 0); ties go to the even significand
RoundBits(bits, sticky, e) ==
    LET b == Strip(bits)
        n == Len(b)
    IN  IF n = 0 THEN FloatZero
        ELSE IF n <= MantissaBits
        THEN [m |-> b \o Zeros(MantissaBits - n), e |-> e - (MantissaBits - n)]
        ELSE LET keep  == SubSeq(b, 1, MantissaBits)
                 guard == b[MantissaBits + 1]
                 rest  == sticky \/ \E i \in (MantissaBits + 2)..n : b[i] = 1
                 up    == guard = 1 /\ (rest \/ keep[MantissaBits] = 1)
                 m     == IF up THEN AddBits(keep, <<1>>) ELSE keep
             IN  IF Len(m) > MantissaBits
                 THEN [m |-> SubSeq(m, 1, MantissaBits), e |-> e + (n - MantissaBits) + 1]
                 ELSE [m |-> m, e |-> e + (n - MantissaBits)]

\* float(n) for a natural number n
FromInt(n) == RoundBits(Bits(n), FALSE, 0)

\* x + y
FAdd(x, y) ==
    IF x.m = <<>> THEN y
    ELSE IF y.m = <<>> THEN x
    ELSE LET e == IF x.e < y.e THEN x.e ELSE y.e
         IN  RoundBits(AddBits(x.m \o Zeros(x.e - e), y.m \o Zeros(y.e - e)), FALSE, e)

\* x * k and x / d for natural numbers k and d > 0 (exact as floats)
FMulInt(x, k) == IF x.m = <<>> THEN FloatZero ELSE RoundBits(MulBits(x.m, k), FALSE, x.e)

FDivInt(x, d) ==
    IF x.m = <<>> THEN FloatZero
    ELSE LET dividend == x.m \o Zeros(GuardBits)
             div      == DivBits(dividend, d, 1, Len(dividend), 0)
         IN  RoundBits(div.q, div.r # 0, x.e - GuardBits)

\* x < y and x <= y
FLess(x, y) ==
    IF y.m = <<>> THEN FALSE
    ELSE IF x.m = <<>> THEN TRUE
    ELSE IF x.e # y.e THEN x.e < y.e
    ELSE \E i \in 1..MantissaBits :
             /\ x.m[i] < y.m[i]
             /\ \A j \in 1..(i - 1) : x.m[j] = y.m[j]

FLeq(x, y) == x = y \/ FLess(x, y)

\* the natural number a digit sequence denotes
RECURSIVE BitsValue(_)
BitsValue(b) == IF b = <<>> THEN 0 ELSE 2 * BitsValue(SubSeq(b, 1, Len(b) - 1)) + b[Len(b)]

\* the float a decimal literal with two decimals denotes: cents / 100
FromCents(cents) == FDivInt(FromInt(cents), 100)

\* the integer nearest to b * 2^e for a digit sequence b, ties to even
RintBits(bits, e) ==
    IF Strip(bits) = <<>> THEN 0
    ELSE IF e >= 0 THEN BitsValue(bits \o Zeros(e))
    ELSE LET f     == 0 - e
             b     == Zeros(f + 1 - Len(bits)) \o bits
             n     == Len(b)
             whole == SubSeq(b, 1, n - f)
             guard == b[n - f + 1]
             rest  == \E i \in (n - f + 2)..n : b[i] = 1
             odd   == whole # <<>> /\ whole[Len(whole)] = 1
         IN  BitsValue(whole) + (IF guard = 1 /\ (rest \/ odd) THEN 1 ELSE 0)

\* numpy.rint of a float, as a natural number
Rint(x) == RintBits(x.m, x.e)

\* Python's round(x, ndigits), in units of 10^-ndigits: the exact value of
\* the float is rounded to ndigits decimals, ties (exact ones only) to even
round(x, ndigits) == RintBits(MulBits(x.m, 10 ^ ndigits), x.e)

\* numpy.round(x, 2): rint(x * 100) / 100
Round2(x) == FDivInt(FromInt(Rint(FMulInt(x, 100))), 100)

-----------------------------------------------------------------------------
(* Bounds of the API Handler's inputs *)

MaxPathSegments == 4
MaxLimitLen == 2
MaxItems == 2
MaxListed == 2

Segments ==
    {"", "api", "data-sources", "dashboard", "summary", "files", "health", "recent"}

\* A path "/s1/s2/.../sn" is the sequence <<s1, ..., sn>> of its segments
\* ("/" is <<"">>); path.split('/') is <<"">> \o path.
Paths == UNION {[1..n -> Segments] : n \in 1..MaxPathSegments}

Methods == {"GET", "POST", "OPTIONS"}

LimitChars == {"5", "-"}
\* the strings over LimitChars, and three with a form feed, which int() skips
LimitStrings ==
    UNION {[1..n -> LimitChars] : n \in 0..MaxLimitLen}
        \cup {<<"\f">>, <<"\f", "5">>, <<"5", "\f">>}

\* the 'prefix' parameter when it is given, and the limits given with it
PrefixStrings == {"raw-data/"}
PrefixedLimits == {None, Some(<<"5">>), Some(<<"-">>)}

\* queryStringParameters with 'limit' and 'prefix' absent (None) or present
QueryParameters ==
    {[limit |-> None, prefix |-> None]}
        \cup {[limit |-> Some(s), prefix |-> None] : s \in LimitStrings}
        \cup {[limit |-> l, prefix |-> Some(p)] : l \in PrefixedLimits, p \in PrefixStrings}

Events == [httpMethod : Methods, path : Paths, queryStringParameters : QueryParameters]

NoEvent ==
    [httpMethod |-> "", path |-> <<>>,
     queryStringParameters |-> [limit |-> None, prefix |-> None]]
NoResponse == [statusCode |-> 0]


-----------------------------------------------------------------------------
(* The clock and the object keys *)

TicksPerSecond == 2
MaxTime == 2

\* how many calls to the outside may fail in one behaviour: of one run, and
\* of two concurrent runs
MaxFaults == 3
MaxPairFaults == 1

\* now.strftime('%Y%m%d_%H%M%S'): the second a tick falls in
SecondOf(t) == t \div TicksPerSecond

\* f"raw-data/year={year}/month={month}/day={day}/{data_source}_{stamp}.parquet":
\* the partition is a function of the stamp, so source and stamp make the key.
FileKey(data_source, t) ==
    [layout |-> "raw-data/year=", name |-> data_source, stamp |-> SecondOf(t)]

-----------------------------------------------------------------------------
(* Metadata records as the API Handler may find them in the table: the     *)
(* dicts the collectors and the analyzer put (see update_metadata below).  *)

ApiItemChoices ==
    { [data_source |-> "lseg", timestamp |-> 1, file_key |-> Some(FileKey("lseg", 0)),
       record_count |-> 7, success |-> TRUE, data_hash |-> <<"lseg", 1, 7>>],
      [data_source |-> "lseg", timestamp |-> 2, file_key |-> None,
       record_count |-> 0, success |-> FALSE, data_hash |-> <<"lseg", 2, 0>>,
       error_message |-> "Collection failed for lseg"],
      [data_source |-> "weather", timestamp |-> 2, file_key |-> Some(FileKey("weather", 2)),
       record_count |-> 4, success |-> TRUE, data_hash |-> <<"weather", 2, 4>>],
      [data_source |-> "weather", timestamp |-> 1, file_key |-> Some(FileKey("weather", 1)),
       record_count |-> 4, success |-> TRUE, data_hash |-> <<"weather", 1, 4>>],
      [data_source |-> "weekly_analysis", timestamp |-> 3, success |-> TRUE],
      [file_id |-> "f1", s3_location |-> FileKey("lseg", 0), record_count |-> 3,
       status |-> "completed", timestamp |-> 3, source |-> "lseg_sftp"] }

ApiItemLists == UNION {[1..n -> ApiItemChoices] : n \in 0..MaxItems}

\* dict.get(key, default)
Get(d, k, default) == IF k \in DOMAIN d THEN d[k] ELSE default

\* what a table.scan / table.query / list_objects_v2 call does
StoreOutcomes == {Raise("ClientError")} \cup {Ret(items) : items \in ApiItemLists}

-----------------------------------------------------------------------------
(* APIHandler *)

get_cors_headers ==
    [ AccessControlAllowOrigin  |-> "*",
      AccessControlAllowMethods |-> "GET, POST, PUT, DELETE, OPTIONS",
      AccessControlAllowHeaders |->
          "Content-Type, Authorization, X-Amz-Date, X-Api-Key, X-Amz-Security-Token",
      AccessControlMaxAge       |-> "86400" ]

\* The body is passed through json.dumps(..., default=str): the returned
\* 'body' is the JSON text of the dict kept here.
create_response(status_code, body) ==
    [statusCode |-> status_code, headers |-> get_cors_headers, body |-> body]

handle_options == create_response(200, [message |-> "CORS preflight successful"])

\* One item of the scan folded into sources_status (a list of per-source
\* dicts in order of first appearance, as the Python dict keeps them).
NewStatus(source) ==
    [name |-> source, last_success |-> None, last_attempt |-> None,
     success_count |-> 0, failure_count |-> 0, total_records |-> 0]

StatusIndex(acc, source) ==
    IF \E i \in 1..Len(acc) : acc[i].name = source
    THEN CHOOSE i \in 1..Len(acc) : acc[i].name = source
    ELSE Len(acc) + 1

\* (last_attempt taken from the item at hand, whatever was seen before)
StatusStep_LastSeen(acc, item) ==
    LET source == item.data_source
        i      == StatusIndex(acc, source)
        acc1   == IF i > Len(acc) THEN Append(acc, NewStatus(source)) ELSE acc
        st     == acc1[i]
        st1    == IF item.success
                  THEN [st EXCEPT
                          !.success_count = @ + 1,
                          !.total_records = @ + Get(item, "record_count", 0),
                          !.last_success =
                              IF @ = None \/ item.timestamp > @[1]
                              THEN Some(item.timestamp) ELSE @]
                  ELSE [st EXCEPT !.failure_count = @ + 1]
    IN  [acc1 EXCEPT ![i] = [st1 EXCEPT !.last_attempt = Some(item.timestamp)]]

\* the body of 'for item in response['Items']' (80-101)
StatusStep(acc, item) ==
    LET source == item.data_source
        i      == StatusIndex(acc, source)
        acc1   == IF i > Len(acc) THEN Append(acc, NewStatus(source)) ELSE acc
        st     == acc1[i]
        st1    == IF item.success
                  THEN [st EXCEPT
                          !.success_count = @ + 1,
                          !.total_records = @ + Get(item, "record_count", 0),
                          !.last_success =
                              IF @ = None \/ item.timestamp > @[1]
                              THEN Some(item.timestamp) ELSE @]
                  ELSE [st EXCEPT !.failure_count = @ + 1]
        st2    == [st1 EXCEPT
                     !.last_attempt =
                         IF @ = None \/ item.timestamp > @[1]
                         THEN Some(item.timestamp) ELSE @]
    IN  [acc1 EXCEPT ![i] = st2]

RECURSIVE StatusFold(_, _)
StatusFold(acc, items) ==
    IF items = <<>> THEN acc
    ELSE StatusFold(StatusStep(acc, Head(items)), Tail(items))

\* item[k] raises KeyError when k is missing
HasKeys(items, keys) == \A i \in 1..Len(items) : keys \subseteq DOMAIN items[i]

get_data_sources_status(scan) ==
    IF scan.exc
    THEN create_response(500, [error |-> "Failed to retrieve data sources status",
                               message |-> scan.err])
    ELSE IF ~HasKeys(scan.val, {"data_source", "success", "timestamp"})
    THEN create_response(500, [error |-> "Failed to retrieve data sources status",
                               message |-> "KeyError"])
    ELSE LET sources_status == StatusFold(<<>>, scan.val)
         IN  create_response(200, [data_sources |-> sources_status,
                                   total_sources |-> Len(sources_status)])

RecentEntry(item) ==
    [timestamp |-> item.timestamp,
     success |-> item.success,
     record_count |-> Get(item, "record_count", 0),
     file_key |-> Get(item, "file_key", None),
     data_hash |-> Get(item, "data_hash", None)]

get_recent_data(data_source, limit, query) ==
    IF query.exc
    THEN create_response(500, [error |-> "Failed to retrieve recent data",
                               data_source |-> data_source, message |-> query.err])
    ELSE IF ~HasKeys(query.val, {"timestamp", "success"})
    THEN create_response(500, [error |-> "Failed to retrieve recent data",
                               data_source |-> data_source, message |-> "KeyError"])
    ELSE LET recent_data == [i \in 1..Len(query.val) |-> RecentEntry(query.val[i])]
         IN  create_response(200, [data_source |-> data_source,
                                   recent_collections |-> recent_data,
                                   count |-> Len(recent_data)])

RECURSIVE SumRecordCount(_)
SumRecordCount(items) ==
    IF items = <<>> THEN 0
    ELSE Get(Head(items), "record_count", 0) + SumRecordCount(Tail(items))

\* round(x / n * 100, 2) 'if n > 0 else 0', kept in hundredths of a percent:
\* the float quotient, its float product with 100, then round()
RatePercent(x, n) ==
    IF n > 0 THEN round(FMulInt(FDivInt(FromInt(x), n), 100), 2) ELSE 0

get_dashboard_summary(scan) ==
    IF scan.exc
    THEN create_response(500, [error |-> "Failed to retrieve dashboard summary",
                               message |-> scan.err])
    ELSE IF ~HasKeys(scan.val, {"success", "data_source"})
    THEN create_response(500, [error |-> "Failed to retrieve dashboard summary",
                               message |-> "KeyError"])
    ELSE LET items == scan.val
             total_collections == Len(items)
             successful_collections ==
                 Cardinality({i \in 1..Len(items) : items[i].success})
             data_sources == {items[i].data_source : i \in 1..Len(items)}
         IN  create_response(200,
                 [summary |->
                     [total_collections_24h |-> total_collections,
                      successful_collections_24h |-> successful_collections,
                      success_rate_percentage |->
                          RatePercent(successful_collections, total_collections),
                      total_records_24h |-> SumRecordCount(items),
                      active_data_sources |-> Cardinality(data_sources),
                      data_sources |-> data_sources],
                  period |-> "24 hours"])

\* The i-th object of a list_objects_v2 reply: 'Key', 'Size', 'LastModified'
ListedObject(i) ==
    [Key |-> FileKey("eia_energy", i * TicksPerSecond), Size |-> 100 * i,
     LastModified |-> i]

\* The user metadata head_object may report for an object: none (an object
\* the SFTP Collector put), the data_source tag alone, or the tags the API
\* Data Collector's save_to_s3 sets
MetadataChoices ==
    { <<>>,
      [data_source |-> "eia_energy"],
      [data_source |-> "eia_energy", record_count |-> "2",
       collection_time |-> "t", environment |-> "prod"] }

\* What a head_object call does: it raises, or returns a response with or
\* without a 'Metadata' entry
HeadOutcomes ==
    {Raise("ClientError"), Ret([ContentLength |-> 100])}
        \cup {Ret([ContentLength |-> 100, Metadata |-> m]) : m \in MetadataChoices}

\* list: what list_objects_v2(Prefix=prefix, MaxKeys=limit) did, Ret(the
\* reply's Contents, <<>> when the reply has none) or Raise; heads: what
\* head_object did for each listed object. A head_object that raises leaves
\* metadata {}, and every tag missing from the metadata reads 'unknown'.
\* (last_modified stands for its isoformat(); the body's 'timestamp' is
\* left out.)
get_s3_files(prefix, limit, list, heads) ==
    IF list.exc
    THEN create_response(500, [error |-> "Failed to retrieve S3 files",
                               message |-> list.err])
    ELSE LET metadata(i) == IF heads[i].exc THEN <<>>
                            ELSE Get(heads[i].val, "Metadata", <<>>)
             files == [i \in 1..Len(list.val) |->
                          [key |-> list.val[i].Key,
                           size |-> list.val[i].Size,
                           last_modified |-> list.val[i].LastModified,
                           data_source |-> Get(metadata(i), "data_source", "unknown"),
                           record_count |-> Get(metadata(i), "record_count", "unknown"),
                           collection_time |->
                               Get(metadata(i), "collection_time", "unknown")]]
         IN  create_response(200, [files |-> files, count |-> Len(files),
                                   bucket |-> "S3_BUCKET", prefix |-> prefix])

\* (overall health taken as 'or' of the two checks)
get_health_check_or(describe_table_ok, head_bucket_ok) ==
    LET overall_healthy == describe_table_ok \/ head_bucket_ok
    IN  create_response(IF overall_healthy THEN 200 ELSE 503,
            [status |-> IF overall_healthy THEN "healthy" ELSE "unhealthy",
             services |->
                 [dynamodb |-> IF describe_table_ok THEN "healthy" ELSE "unhealthy",
                  s3       |-> IF head_bucket_ok THEN "healthy" ELSE "unhealthy"],
             version |-> "1.0.0"])

get_health_check(describe_table_ok, head_bucket_ok) ==
    LET dynamodb_healthy == describe_table_ok
        s3_healthy       == head_bucket_ok
        overall_healthy  == dynamodb_healthy /\ s3_healthy
    IN  create_response(IF overall_healthy THEN 200 ELSE 503,
            [status |-> IF overall_healthy THEN "healthy" ELSE "unhealthy",
             services |->
                 [dynamodb |-> IF dynamodb_healthy THEN "healthy" ELSE "unhealthy",
                  s3       |-> IF s3_healthy THEN "healthy" ELSE "unhealthy"],
             version |-> "1.0.0"])

-----------------------------------------------------------------------------
(* lambda_handler of the API Handler *)

\* path.startswith('/api/data-sources/') and path.endswith('/recent')
IsRecentPath(path) ==
    /\ Len(path) >= 3
    /\ path[1] = "api"
    /\ path[2] = "data-sources"
    /\ path[Len(path)] = "recent"

\* (the OPTIONS test placed after the health route)
Route_HealthFirst(ev) ==
    IF ev.path = <<"health">> THEN "health"
    ELSE IF ev.httpMethod = "OPTIONS" THEN "options"
    ELSE IF ev.path = <<"api", "data-sources">> THEN "data_sources"
    ELSE IF ev.path = <<"api", "dashboard", "summary">> THEN "summary"
    ELSE IF IsRecentPath(ev.path) THEN "recent"
    ELSE IF ev.path = <<"api", "files">> THEN "files"
    ELSE "not_found"

\* The branch of lambda_handler's if/elif chain that an event takes.
Route(ev) ==
    IF ev.httpMethod = "OPTIONS" THEN "options"
    ELSE IF ev.path = <<"health">> THEN "health"
    ELSE IF ev.path = <<"api", "data-sources">> THEN "data_sources"
    ELSE IF ev.path = <<"api", "dashboard", "summary">> THEN "summary"
    ELSE IF IsRecentPath(ev.path) THEN "recent"
    ELSE IF ev.path = <<"api", "files">> THEN "files"
    ELSE "not_found"

\* path.split('/')[3]
RecentSource(path) == (<<"">> \o path)[4]

\* int(query_parameters.get('limit', default))
LimitOf(ev, default) ==
    IF ev.queryStringParameters.limit = None
    THEN Ret(default)
    ELSE int(ev.queryStringParameters.limit[1])

\* (the outer handler removed: the exception leaves lambda_handler)
lambda_handler_no_except(e) ==
    [response |-> NoResponse, escaped |-> e]

\* The handler's outer 'except Exception': what leaves lambda_handler when
\* a route raises.
lambda_handler_except(e) ==
    [response |-> create_response(500, [error |-> "Internal server error", message |-> e]),
     escaped  |-> "none"]

Call(op, ok) == [op |-> op, ok |-> ok]

\* a call together with what it returned or raised (history)
CallReturning(op, outcome) == [op |-> op, ok |-> ~outcome.exc, returned |-> outcome]

Returned(resp) == [response |-> resp, escaped |-> "none"]

Finish(out, calls) ==
    /\ apiPc' = "done"
    /\ response' = out.response
    /\ escaped' = out.escaped
    /\ storeCalls' = calls
    /\ UNCHANGED <<event, storeVars, collVars, sftpVars, analyzerVars, passVars>>

\* Invocations are stateless and independent: one is followed to its end.
ApiReceive ==
    /\ apiPc = "idle"
    /\ \E ev \in Events : event' = ev
    /\ apiPc' = "received"
    /\ response' = NoResponse
    /\ escaped' = "none"
    /\ storeCalls' = <<>>
    /\ UNCHANGED <<storeVars, collVars, sftpVars, analyzerVars, passVars>>

ApiOptions ==
    /\ apiPc = "received"
    /\ Route(event) = "options"
    /\ Finish(Returned(handle_options), <<>>)

ApiHealth ==
    /\ apiPc = "received"
    /\ Route(event) = "health"
    /\ \E describe_table_ok \in BOOLEAN, head_bucket_ok \in BOOLEAN :
          Finish(Returned(get_health_check(describe_table_ok, head_bucket_ok)),
                 <<Call("describe_table", describe_table_ok),
                   Call("head_bucket", head_bucket_ok)>>)

ApiDataSources ==
    /\ apiPc = "received"
    /\ Route(event) = "data_sources"
    /\ \E scan \in StoreOutcomes :
          Finish(Returned(get_data_sources_status(scan)), <<CallReturning("scan", scan)>>)

ApiSummary ==
    /\ apiPc = "received"
    /\ Route(event) = "summary"
    /\ \E scan \in StoreOutcomes :
          Finish(Returned(get_dashboard_summary(scan)), <<Call("scan", ~scan.exc)>>)

ApiRecent ==
    /\ apiPc = "received"
    /\ Route(event) = "recent"
    /\ LET data_source == RecentSource(event.path)
           limit       == LimitOf(event, 50)
       IN  IF limit.exc
           THEN Finish(lambda_handler_except(limit.err), <<>>)
           ELSE \E query \in StoreOutcomes :
                   Finish(Returned(get_recent_data(data_source, limit.val, query)),
                          <<Call("query", ~query.exc)>>)

\* /api/files: query_parameters.get('prefix', ''), int() of the limit, then
\* get_s3_files: one list_objects_v2 and one head_object per listed object
ApiFiles ==
    /\ apiPc = "received"
    /\ Route(event) = "files"
    /\ LET prefix == IF event.queryStringParameters.prefix = None THEN ""
                     ELSE event.queryStringParameters.prefix[1]
           limit  == LimitOf(event, 20)
       IN  IF limit.exc
           THEN Finish(lambda_handler_except(limit.err), <<>>)
           ELSE \/ Finish(Returned(get_s3_files(prefix, limit.val, Raise("ClientError"), <<>>)),
                          <<Call("list_objects_v2", FALSE)>>)
                \/ \E n \in 0..MaxListed : \E heads \in [1..n -> HeadOutcomes] :
                      LET contents == [i \in 1..n |-> ListedObject(i)]
                      IN  Finish(Returned(get_s3_files(prefix, limit.val, Ret(contents), heads)),
                                 <<Call("list_objects_v2", TRUE)>>
                                    \o [i \in 1..n |-> Call("head_object", ~heads[i].exc)])

ApiNotFound ==
    /\ apiPc = "received"
    /\ Route(event) = "not_found"
    /\ Finish(Returned(create_response(404,
                 [error |-> "Endpoint not found",
                  path |-> event.path,
                  method |-> event.httpMethod,
                  available_endpoints |->
                      <<"/health", "/api/data-sources", "/api/dashboard/summary",
                        "/api/data-sources/{source}/recent", "/api/files">>])),
              <<>>)

-----------------------------------------------------------------------------
(* Properties of the API Handler *)

StatusCodes == {200, 404, 500, 503}

\* C1: every invocation of lambda_handler, whatever the method, path and
\* 'limit' parameter and whatever the store calls do, ends with a returned
\* response carrying the CORS headers, a body and a status among 200, 404,
\* 500, 503; no exception leaves the handler.
C1_AlwaysStructuredResponse ==
    apiPc = "done" =>
        /\ escaped = "none"
        /\ DOMAIN response = {"statusCode", "headers", "body"}
        /\ response.statusCode \in StatusCodes
        /\ response.headers = get_cors_headers

\* a 'limit' that is no integer (a sign without digits) on the recent
\* route ended as a 500 response
C1_Witness ==
    /\ apiPc = "done"
    /\ Route(event) = "recent"
    /\ event.queryStringParameters.limit = Some(<<"-">>)
    /\ escaped = "none"
    /\ response.statusCode = 500

\* The five routes as declared: the recent route has exactly one source
\* segment between /api/data-sources/ and /recent.
IsDeclaredRoute(path) ==
    \/ path \in {<<"health">>, <<"api", "data-sources">>,
                 <<"api", "dashboard", "summary">>, <<"api", "files">>}
    \/ /\ Len(path) = 4
       /\ path[1] = "api" /\ path[2] = "data-sources" /\ path[4] = "recent"

\* C2: a non-OPTIONS request on a path outside the five declared routes
\* is answered 404 with the list of valid routes and makes no store call.
C2_UndeclaredPathIs404 ==
    (apiPc = "done" /\ event.httpMethod # "OPTIONS" /\ ~IsDeclaredRoute(event.path)) =>
        /\ response.statusCode = 404
        /\ "available_endpoints" \in DOMAIN response.body
        /\ storeCalls = <<>>

\* C3: an OPTIONS request on any path is answered 200 with the CORS
\* headers by handle_options alone: no route handler runs and no store
\* call is made.
C3_OptionsAlwaysSucceeds ==
    (apiPc = "done" /\ event.httpMethod = "OPTIONS") =>
        /\ escaped = "none"
        /\ response.statusCode = 200
        /\ response.headers = get_cors_headers
        /\ response.body = [message |-> "CORS preflight successful"]
        /\ storeCalls = <<>>

\* OPTIONS on /health was answered
C3_Witness ==
    /\ apiPc = "done"
    /\ event.httpMethod = "OPTIONS"
    /\ event.path = <<"health">>
    /\ response.statusCode = 200

\* C4: the health route answers 200 'healthy' exactly when both the
\* describe_table and the head_bucket check succeed; otherwise 503
\* 'unhealthy', with the failed dependency's field 'unhealthy'.
C4_HealthReflectsChecks ==
    (apiPc = "done" /\ Route(event) = "health") =>
        LET dynamodb_ok == storeCalls[1].ok
            s3_ok       == storeCalls[2].ok
        IN  /\ Len(storeCalls) = 2
            /\ response.statusCode = 200 <=> (dynamodb_ok /\ s3_ok)
            /\ response.body.status = "healthy" <=> (dynamodb_ok /\ s3_ok)
            /\ ~(dynamodb_ok /\ s3_ok) =>
                   /\ response.statusCode = 503
                   /\ response.body.status = "unhealthy"
            /\ response.body.services.dynamodb = "unhealthy" <=> ~dynamodb_ok
            /\ response.body.services.s3 = "unhealthy" <=> ~s3_ok

\* the health route answered 503 with only the object store failing
C4_Witness ==
    /\ apiPc = "done"
    /\ Route(event) = "health"
    /\ storeCalls[1].ok /\ ~storeCalls[2].ok
    /\ response.statusCode = 503
    /\ response.body.services.s3 = "unhealthy"
    /\ response.body.services.dynamodb = "healthy"

-----------------------------------------------------------------------------
(* The object store and the metadata store *)

\* put_object: the object under a key is replaced
PutObject(objects, obj) == {o \in objects : o.key # obj.key} \cup {obj}

\* The table's primary key as the API Handler queries it: the key condition
\* 'data_source = :source' (the partition key) with the items of a partition
\* ordered by timestamp (the sort key).
TableKey == {"data_source", "timestamp"}

ItemKey(item) == <<item.data_source, item.timestamp>>

\* put_item: Ret(table) with the item in place of any item of the same
\* key; the call raises when the store fails or rejects the item (an item
\* without the key attributes is rejected).
PutItem(table, item, store_ok) ==
    IF store_ok /\ TableKey \subseteq DOMAIN item
    THEN Ret({i \in table : ItemKey(i) # ItemKey(item)} \cup {item})
    ELSE Raise("ClientError")

-----------------------------------------------------------------------------
(* API Data Collector *)

Runs == {"r1", "r2"}

\* DATA_SOURCES, in the order of the dict
DATA_SOURCES ==
    << [key |-> "lseg",     name |-> "LSEG Power Markets",  enabled |-> TRUE],
       [key |-> "weather",  name |-> "Weather Data",        enabled |-> TRUE],
       [key |-> "economic", name |-> "Economic Indicators", enabled |-> TRUE] >>

SourceKeys == {DATA_SOURCES[i].key : i \in 1..Len(DATA_SOURCES)}

\* DATA_SOURCES.get(source_name, {}).get('enabled', False)
IsEnabled(source_name) ==
    \E i \in 1..Len(DATA_SOURCES) :
        DATA_SOURCES[i].key = source_name /\ DATA_SOURCES[i].enabled

\* What ssm_client.get_parameter does for one parameter
ParameterOutcomes == {"value", "not_found", "error"}

RequiredParameters == {"claude", "lseg"}
OptionalParameters == {"weather", "economic"}

\* load_api_keys: Ret(api_keys) or the DataCollectionError it raises.  The
\* first two parameters are required; ParameterNotFound is tolerated for the
\* last two only.
load_api_keys(ssm) ==
    IF ssm["claude"] # "value" \/ ssm["lseg"] # "value"
       \/ ssm["weather"] = "error" \/ ssm["economic"] = "error"
    THEN Raise("DataCollectionError")
    ELSE Ret({"claude", "lseg"}
             \cup (IF ssm["weather"] = "value" THEN {"weather"} ELSE {})
             \cup (IF ssm["economic"] = "value" THEN {"economic"} ELSE {}))

\* len() of the table a collect_* method builds from its placeholder data
RecordsCollected(source_name) ==
    CASE source_name = "lseg"     -> 4 + 3
      [] source_name = "weather"  -> 4
      [] source_name = "economic" -> 6

\* collect_lseg_data / collect_weather_data / collect_economic_data: None
\* without the source's API key or when building the table raises, else the
\* table (kept as its length).
collect_data(source_name, api_keys, build_ok) ==
    IF source_name \notin api_keys THEN None
    ELSE IF ~build_ok THEN None
    ELSE Some(RecordsCollected(source_name))

\* (the upload done, then the method raising all the same)
save_to_s3_raise_after_put(objects, df, data_source, t, put_ok, attempt) ==
    LET file_key == FileKey(data_source, t)
        obj      == [key |-> file_key, record_count |-> df[1], writer |-> attempt]
    IN  [raised |-> ~put_ok, file_key |-> IF put_ok THEN Some(file_key) ELSE None,
         objects |-> PutObject(objects, obj), uploaded |-> Some(file_key)]

\* save_to_s3: the key from the clock, then put_object; any failure is
\* re-raised as DataCollectionError.
save_to_s3(objects, df, data_source, t, put_ok, attempt) ==
    LET file_key == FileKey(data_source, t)
        obj      == [key |-> file_key, record_count |-> df[1], writer |-> attempt]
    IN  IF put_ok
        THEN [raised |-> FALSE, file_key |-> Some(file_key),
              objects |-> PutObject(objects, obj), uploaded |-> Some(file_key)]
        ELSE [raised |-> TRUE, file_key |-> None,
              objects |-> objects, uploaded |-> None]

\* The item update_metadata builds ('environment' and 'ttl' left out;
\* data_hash is kept as the text that is hashed; 'attempt' is history).
MetadataItem(data_source, file_key, record_count, success, t, attempt) ==
    LET item == [data_source |-> data_source,
                 timestamp |-> t,
                 file_key |-> file_key,
                 record_count |-> record_count,
                 success |-> success,
                 data_hash |-> <<data_source, t, record_count>>,
                 attempt |-> attempt]
    IN  IF success THEN item
        ELSE item @@ [error_message |-> <<"Collection failed for ", data_source>>]

\* (the item built and logged, and never put)
update_metadata_NoPut(table, item, put_ok) == table

\* update_metadata: put_item, a failure of which is logged and swallowed
update_metadata(table, item, put_ok) ==
    LET put == PutItem(table, item, put_ok)
    IN  IF put.exc THEN table ELSE put.val

\* process_data_source's result dict
Result(source, success, record_count, file_key, error) ==
    [source |-> source, success |-> success, record_count |-> record_count,
     file_key |-> file_key, error |-> error]

\* the index of the next enabled source at or after i (Len + 1 when none)
RECURSIVE NextEnabled(_)
NextEnabled(i) ==
    IF i > Len(DATA_SOURCES) THEN i
    ELSE IF DATA_SOURCES[i].enabled THEN i
    ELSE NextEnabled(i + 1)

\* (the loop left at the first source that fails)
AfterSource_StopOnFailure(c, result) ==
    LET next == IF result.success THEN NextEnabled(c.idx + 1) ELSE Len(DATA_SOURCES) + 1
    IN  [c EXCEPT !.idx = next,
                  !.pc = IF next > Len(DATA_SOURCES) THEN "respond" ELSE "collect"]

\* lambda_handler's for loop moving on to the next enabled source
AfterSource(c, result) ==
    LET next == NextEnabled(c.idx + 1)
    IN  [c EXCEPT !.idx = next,
                  !.pc = IF next > Len(DATA_SOURCES) THEN "respond" ELSE "collect"]

\* (every result counted as a success)
Tally_CountAll(c, result) ==
    [c EXCEPT !.results = Append(@, result),
              !.successful_sources = @ + 1,
              !.total_records = @ + result.record_count]

\* lambda_handler: results.append(result) and the two tallies
Tally(c, result) ==
    IF result.success
    THEN [c EXCEPT !.results = Append(@, result),
                   !.successful_sources = @ + 1,
                   !.total_records = @ + result.record_count]
    ELSE [c EXCEPT !.results = Append(@, result)]

\* the locals of process_data_source are dead once it has returned
SourceDone(c, result) ==
    [AfterSource(Tally(c, result), result) EXCEPT
        !.df = None, !.file_key = None, !.raised = FALSE]

CollectorResponse(c) ==
    [statusCode |-> IF c.successful_sources > 0 THEN 200 ELSE 500,
     body |-> [message |-> "Data collection completed",
               total_sources_processed |-> Len(c.results),
               successful_sources |-> c.successful_sources,
               total_records_collected |-> c.total_records,
               results |-> c.results]]

CollectorFailure(e) ==
    [statusCode |-> 500, body |-> [error |-> "Lambda execution failed", cause |-> e]]

NoCollectorResponse == [statusCode |-> 0]

CollectorIdle ==
    [pc |-> "start", api_keys |-> {}, idx |-> 1, df |-> None, file_key |-> None,
     raised |-> FALSE, results |-> <<>>, total_records |-> 0,
     successful_sources |-> 0, response |-> NoCollectorResponse]

CurrentSource(c) == DATA_SOURCES[c.idx].key


Attempt(r, source) == <<r, source>>

\* The outcomes of a call to the outside: failing is possible while the
\* fault budget lasts, and uses it.
Outcomes == IF faultsLeft > 0 THEN BOOLEAN ELSE {TRUE}
Spend(ok) == faultsLeft' = IF ok THEN faultsLeft ELSE faultsLeft - 1

\* the ticks of one day
TicksPerDay == TicksPerSecond * 86400

\* A run starts at tick 0 or one tick before the first midnight, and its
\* clock is read within MaxTime ticks of the start of that window.
RunStarts == {0, TicksPerDay - 1}
RunEnd(t) == IF t < TicksPerDay - 1 THEN MaxTime ELSE TicksPerDay - 1 + MaxTime

\* datetime.utcnow() / datetime.now(): the clock never goes back between
\* two reads
ClockReads == now..RunEnd(now)

\* lambda_handler up to the loop: DataCollector() loads the API keys; a
\* failure there is caught by the handler's outer except.
CollectorConstruct(r) ==
    /\ r \in active
    /\ collector[r].pc = "start"
    /\ \E ssm \in [RequiredParameters \cup OptionalParameters -> ParameterOutcomes] :
          LET keys  == load_api_keys(ssm)
              first == NextEnabled(1)
          IN  /\ \A p \in OptionalParameters :
                    /\ ssm[p] = "value" => p \in ssmParameters
                    /\ ssm[p] = "not_found" => p \notin ssmParameters
              /\ keys.exc => faultsLeft > 0
              /\ Spend(~keys.exc)
              /\ collector' = [collector EXCEPT ![r] =
                    IF keys.exc
                    THEN [@ EXCEPT !.pc = "done", !.response = CollectorFailure(keys.err)]
                    ELSE [@ EXCEPT !.api_keys = keys.val,
                                   !.idx = first,
                                   !.pc = IF first > Len(DATA_SOURCES)
                                          THEN "respond" ELSE "collect"]]
    /\ UNCHANGED <<active, now, ssmParameters, s3Objects, metadataTable, uploads,
                   putItemCalls, apiVars, sftpVars, analyzerVars, passVars>>

\* process_data_source from its start to the return (or the raise) of
\* save_to_s3: the enabled test, the fetch, 'if df is None or len(df) == 0',
\* then the upload under a key made from the clock.
CollectorProcess(r) ==
    /\ r \in active
    /\ collector[r].pc = "collect"
    /\ LET c      == collector[r]
           source == CurrentSource(c)
       IN  IF ~IsEnabled(source)
           THEN /\ collector' = [collector EXCEPT ![r] =
                      SourceDone(c, Result(source, FALSE, 0, None, Some("disabled")))]
                /\ UNCHANGED <<now, s3Objects, uploads, faultsLeft>>
           ELSE \E build_ok \in Outcomes :
                   LET df == collect_data(source, c.api_keys, build_ok)
                   IN  IF df = None \/ df[1] = 0
                       THEN /\ Spend(build_ok)
                            /\ collector' = [collector EXCEPT ![r] =
                                  SourceDone(c, Result(source, FALSE, 0, None,
                                                       Some("No data collected")))]
                            /\ UNCHANGED <<now, s3Objects, uploads>>
                       ELSE \E put_ok \in Outcomes, t \in ClockReads :
                               LET saved == save_to_s3(s3Objects, df, source, t, put_ok,
                                                       Attempt(r, source))
                               IN  /\ Spend(put_ok)
                                   /\ now' = t
                                   /\ s3Objects' = saved.objects
                                   /\ uploads' = uploads \cup
                                         (IF saved.uploaded = None THEN {}
                                          ELSE {[key |-> saved.uploaded[1],
                                                 attempt |-> Attempt(r, source)]})
                                   /\ collector' = [collector EXCEPT ![r] =
                                         [c EXCEPT !.df = df,
                                                   !.file_key = saved.file_key,
                                                   !.raised = saved.raised,
                                                   !.pc = "meta"]]
    /\ UNCHANGED <<active, ssmParameters, metadataTable, putItemCalls, apiVars, sftpVars, analyzerVars, passVars>>

\* process_data_source: update_metadata on the success path or in the
\* except branch, then the result; lambda_handler appends and tallies it.
CollectorMeta(r) ==
    /\ r \in active
    /\ collector[r].pc = "meta"
    /\ LET c      == collector[r]
           source == CurrentSource(c)
           item(t) == IF c.raised
                      THEN MetadataItem(source, None, 0, FALSE, t, Attempt(r, source))
                      ELSE MetadataItem(source, c.file_key, c.df[1], TRUE, t,
                                        Attempt(r, source))
           result == IF c.raised
                     THEN Result(source, FALSE, 0, None, Some("S3 save failed"))
                     ELSE Result(source, TRUE, c.df[1], c.file_key, None)
       IN  \E put_ok \in Outcomes, t \in ClockReads :
              /\ Spend(put_ok)
              /\ now' = t
              /\ metadataTable' = update_metadata(metadataTable, item(t), put_ok)
              /\ putItemCalls' = putItemCalls \cup {[item |-> item(t), ok |-> put_ok]}
              /\ collector' = [collector EXCEPT ![r] = SourceDone(c, result)]
    /\ UNCHANGED <<active, ssmParameters, s3Objects, uploads, apiVars, sftpVars, analyzerVars, passVars>>

\* lambda_handler after the loop
CollectorRespond(r) ==
    /\ r \in active
    /\ collector[r].pc = "respond"
    /\ collector' = [collector EXCEPT ![r] =
          [@ EXCEPT !.pc = "done", !.response = CollectorResponse(collector[r])]]
    /\ UNCHANGED <<active, storeVars, apiVars, sftpVars, analyzerVars, passVars>>

-----------------------------------------------------------------------------
(* SFTP Collector *)

MaxRemoteFiles == 2

\* datetime.now().strftime('%Y%m%d') / ('%Y/%m/%d') / ('%Y-%m-%d'): the day
\* a tick falls in
DateOf(t) == t \div TicksPerDay

\* The names sftp_client.listdir may return.  A name is the sequence of its
\* parts (the parts of "x_d0.csv.csv" are "x_d0", ".csv", ".csv"); 'date' is
\* the day whose '%Y%m%d' the name contains, 'rows' the data rows of the
\* file's content.
RemoteNames ==
    { [name |-> <<"a_d0", ".csv">>, date |-> 0, rows |-> 2],
      [name |-> <<"b_d0", ".csv">>, date |-> 0, rows |-> 0],
      [name |-> <<"c_d9", ".csv">>, date |-> 9, rows |-> 1],
      [name |-> <<"d_d0", ".txt">>, date |-> 0, rows |-> 1],
      [name |-> <<"x_d0", ".csv", ".csv">>, date |-> 0, rows |-> 1],
      [name |-> <<"x_d0", ".parquet", ".csv">>, date |-> 0, rows |-> 1] }

\* filename.endswith(suffix), for a suffix that is one part
endswith(name, suffix) == name # <<>> /\ name[Len(name)] = suffix

\* str.replace(old, new): every occurrence is replaced
replace(name, old, new) == [i \in 1..Len(name) |-> IF name[i] = old THEN new ELSE name[i]]

IsInjective(f) == \A i, j \in DOMAIN f : f[i] = f[j] => i = j

Listings ==
    {l \in UNION {[1..n -> RemoteNames] : n \in 0..MaxRemoteFiles} : IsInjective(l)}

\* connect_sftp: the step at which it raises, or "ok"
ConnectOutcomes == {"get_ssh_key", "from_private_key", "connect", "open_sftp", "ok"}

\* list_available_files: today's .csv files, or [] when listdir raises
list_available_files(listing, t) ==
    IF listing.exc THEN <<>>
    ELSE SelectSeq(listing.val,
                   LAMBDA f : f.date = DateOf(t) /\ endswith(f.name, ".csv"))

\* f"raw-data/{date_prefix}/lseg_{remote_file.replace('.csv', '.parquet')}"
SftpKey(remote_file, t) ==
    [layout |-> "raw-data/",
     name |-> replace(remote_file.name, ".csv", ".parquet"),
     stamp |-> DateOf(t)]

\* the item LSEGSFTPCollector.update_metadata puts: the clock is read for
\* collection_date and again for timestamp ('attempt' is history)
SftpItem(remote_file, s3_key, record_count, t_date, t_stamp) ==
    [file_id |-> remote_file.name,
     collection_date |-> DateOf(t_date),
     s3_location |-> s3_key,
     record_count |-> record_count,
     status |-> "completed",
     timestamp |-> t_stamp,
     source |-> "lseg_sftp",
     attempt |-> <<"sftp", remote_file.name>>]

\* the environment variables the claims call required configuration
SftpConfig == {"S3_BUCKET", "DYNAMODB_TABLE", "SFTP_HOST", "SFTP_USERNAME"}

\* the values SFTP_PORT may be set to
PortStrings == {<<"2", "2">>, <<"a">>}

\* os.environ: the variables that are set and their values; the value of a
\* required setting is a token, that of SFTP_PORT a string of characters
Environ(names, port) ==
    [n \in names \cup (IF port = None THEN {} ELSE {"SFTP_PORT"}) |->
        IF n = "SFTP_PORT" THEN port[1] ELSE <<"env", n>>]

\* The environments a run is started with: every required setting, or all
\* but one, and SFTP_PORT unset or set
Environments ==
    {Environ(names, port) : names \in {SftpConfig} \cup {SftpConfig \ {n} : n \in SftpConfig},
                            port \in {None} \cup {Some(p) : p \in PortStrings}}

\* os.environ.get(name, default) and os.environ.get(name)
environ_get(env, name, default) == IF name \in DOMAIN env THEN Some(env[name]) ELSE default

\* LSEGSFTPCollector.__init__: the three boto3 clients, then the settings as
\* the constructor reads them; a missing bucket or table name becomes the
\* production default, a missing host or username becomes None, and only
\* the port is converted: int() raises on a value that is no integer.
LSEGSFTPCollector_init(env, clients_ok) ==
    LET sftp_port == int(environ_get(env, "SFTP_PORT", Some(<<"2", "2">>))[1])
    IN  IF ~clients_ok THEN Raise("boto3")
        ELSE IF sftp_port.exc THEN Raise(sftp_port.err)
        ELSE Ret([s3_bucket      |-> environ_get(env, "S3_BUCKET", Some(<<"nexus-ena-data-lake-prod">>)),
                  dynamodb_table |-> environ_get(env, "DYNAMODB_TABLE", Some(<<"nexus-ena-metadata-prod">>)),
                  sftp_host      |-> environ_get(env, "SFTP_HOST", None),
                  sftp_port      |-> sftp_port.val,
                  sftp_username  |-> environ_get(env, "SFTP_USERNAME", None)])

SftpIdle ==
    [pc |-> "start", ssh |-> "none", session |-> "none",
     ssh_client |-> FALSE, sftp_client |-> FALSE,
     files |-> <<>>, idx |-> 1, processed_files |-> <<>>,
     s3_key |-> None,        \* the key of the upload whose metadata is due
     env |-> Environ(SftpConfig, None),   \* the environment of the process
     self |-> None,          \* the collector, once constructed
     connect_called |-> FALSE,   \* history: ssh_client.connect was called
     listed |-> FALSE,       \* history: listdir was called
     list_raised |-> FALSE,  \* history: listdir raised
     attempts |-> <<>>,      \* history: the files download_and_process_file returned for
     raised |-> "none", exit_code |-> None]

\* (main ending normally whatever happened)
main_exit_zero(raised) == Some(0)

\* main(): exit(1) when an exception reaches it, a normal end otherwise
main_exit(raised) == IF raised = "none" THEN Some(0) ELSE Some(1)

\* main(): collector = LSEGSFTPCollector(); an exception of the constructor
\* is caught by main's except, which exits before any connection is tried.
SftpConstruct ==
    /\ sftp.pc = "start"
    /\ \E clients_ok \in Outcomes :
          LET built == LSEGSFTPCollector_init(sftp.env, clients_ok)
          IN  /\ Spend(clients_ok)
              /\ sftp' =
                   IF built.exc
                   THEN [sftp EXCEPT !.raised = "init",
                                     !.pc = "exited",
                                     !.exit_code = main_exit("init")]
                   ELSE [sftp EXCEPT !.self = Some(built.val), !.pc = "connect"]
    /\ UNCHANGED <<now, ssmParameters, s3Objects, metadataTable, uploads, putItemCalls,
                   apiVars, collVars, analyzerVars, passVars>>

\* collect_daily_data: ssh_client, sftp_client = self.connect_sftp().  The
\* SSH client and the session exist inside connect_sftp as soon as they are
\* opened; collect_daily_data's two locals are bound only when it returns.
SftpConnect ==
    /\ sftp.pc = "connect"
    /\ \E outcome \in ConnectOutcomes :
          /\ outcome # "ok" => faultsLeft > 0
          /\ Spend(outcome = "ok")
          /\ sftp' =
               IF outcome = "ok"
               THEN [sftp EXCEPT !.ssh = "open", !.session = "open",
                                 !.ssh_client = TRUE, !.sftp_client = TRUE,
                                 !.connect_called = TRUE,
                                 !.pc = "list"]
               ELSE [sftp EXCEPT !.ssh = IF outcome = "open_sftp" THEN "open" ELSE "none",
                                 !.connect_called = outcome \in {"connect", "open_sftp"},
                                 !.raised = outcome,
                                 !.pc = "finally"]
    /\ UNCHANGED <<now, ssmParameters, s3Objects, metadataTable, uploads, putItemCalls,
                   apiVars, collVars, analyzerVars, passVars>>

\* (the listing's exception leaving list_available_files and ending the run)
SftpList_Abort ==
    /\ sftp.pc = "list"
    /\ \E list_ok \in Outcomes, listing \in Listings, t \in ClockReads :
          LET files == list_available_files(
                          IF list_ok THEN Ret(listing) ELSE Raise("IOError"), t)
          IN  /\ Spend(list_ok)
              /\ now' = t
              /\ sftp' = [sftp EXCEPT !.files = files,
                                      !.listed = TRUE,
                                      !.list_raised = ~list_ok,
                                      !.raised = IF list_ok THEN @ ELSE "listdir",
                                      !.pc = IF files = <<>> THEN "finally" ELSE "files"]
    /\ UNCHANGED <<ssmParameters, s3Objects, metadataTable, uploads, putItemCalls,
                   apiVars, collVars, analyzerVars, passVars>>

\* files = self.list_available_files(sftp_client); 'if not files: return'
SftpList ==
    /\ sftp.pc = "list"
    /\ \E list_ok \in Outcomes, listing \in Listings, t \in ClockReads :
          LET files == list_available_files(
                          IF list_ok THEN Ret(listing) ELSE Raise("IOError"), t)
          IN  /\ Spend(list_ok)
              /\ now' = t
              /\ sftp' = [sftp EXCEPT !.files = files,
                                      !.listed = TRUE,
                                      !.list_raised = ~list_ok,
                                      !.pc = IF files = <<>> THEN "finally" ELSE "files"]
    /\ UNCHANGED <<ssmParameters, s3Objects, metadataTable, uploads, putItemCalls,
                   apiVars, collVars, analyzerVars, passVars>>

\* download_and_process_file up to the return of put_object: None on any
\* failure before or at the upload (read_ok: download, parse and
\* conversion; put_ok: put_object), and the key, made from the clock as it
\* is read before the upload, once the object is stored.
download_and_process_file(objects, remote_file, t, read_ok, put_ok) ==
    LET s3_key  == SftpKey(remote_file, t)
        attempt == <<"sftp", remote_file.name>>
    IN  IF read_ok /\ put_ok
        THEN [s3_key |-> Some(s3_key),
              objects |-> PutObject(objects, [key |-> s3_key,
                                              record_count |-> remote_file.rows,
                                              writer |-> attempt]),
              uploaded |-> {[key |-> s3_key, attempt |-> attempt]}]
        ELSE [s3_key |-> None, objects |-> objects, uploaded |-> {}]

\* (a file that failed ends the loop with its exception)
AfterFile_AbortOnFailure(c, s3_key) ==
    LET last == c.idx = Len(c.files)
    IN  IF s3_key = None
        THEN [c EXCEPT !.attempts = Append(@, c.files[c.idx].name),
                       !.raised = "file",
                       !.pc = "finally"]
        ELSE [c EXCEPT !.attempts = Append(@, c.files[c.idx].name),
                       !.processed_files = Append(@, s3_key[1]),
                       !.idx = @ + 1,
                       !.pc = IF last THEN "finally" ELSE "files"]

\* collect_daily_data's loop after one call: 'if s3_key:
\* processed_files.append(s3_key)', then the next file
AfterFile(c, s3_key) ==
    LET last == c.idx = Len(c.files)
    IN  [c EXCEPT !.attempts = Append(@, c.files[c.idx].name),
                  !.processed_files = IF s3_key = None THEN @ ELSE Append(@, s3_key[1]),
                  !.idx = @ + 1,
                  !.pc = IF last THEN "finally" ELSE "files"]

\* One turn of the loop over the listed files, up to the upload: a file
\* that failed is done with, an uploaded one waits for its metadata.
SftpFile ==
    /\ sftp.pc = "files"
    /\ \E read_ok \in Outcomes, t \in ClockReads :
       \E put_ok \in (IF read_ok THEN Outcomes ELSE {TRUE}) :
          LET done == download_and_process_file(s3Objects, sftp.files[sftp.idx], t,
                                                read_ok, put_ok)
          IN  /\ Spend(read_ok /\ put_ok)
              /\ now' = t
              /\ s3Objects' = done.objects
              /\ uploads' = uploads \cup done.uploaded
              /\ sftp' = IF done.s3_key = None
                         THEN AfterFile(sftp, None)
                         ELSE [sftp EXCEPT !.s3_key = done.s3_key, !.pc = "metadata"]
    /\ UNCHANGED <<ssmParameters, metadataTable, putItemCalls,
                   apiVars, collVars, analyzerVars, passVars>>

\* download_and_process_file after the upload: self.update_metadata(...),
\* which reads the clock twice and keeps a failure of put_item to itself,
\* then 'return s3_key' and the loop's append. The item has no
\* 'data_source', so the table rejects it and put_item raises whether or
\* not the store fails: the call is recorded as not having succeeded, and
\* a fault is spent only when the store itself failed.
SftpMetadata ==
    /\ sftp.pc = "metadata"
    /\ \E item_ok \in Outcomes, t_date \in ClockReads :
       \E t_stamp \in t_date..RunEnd(now) :
          LET remote_file == sftp.files[sftp.idx]
              item == SftpItem(remote_file, sftp.s3_key[1], remote_file.rows,
                               t_date, t_stamp)
          IN  /\ Spend(item_ok)
              /\ now' = t_stamp
              /\ metadataTable' = update_metadata(metadataTable, item, item_ok)
              /\ putItemCalls' = putItemCalls \cup
                     {[item |-> item, ok |-> ~PutItem(metadataTable, item, item_ok).exc]}
              /\ sftp' = AfterFile([sftp EXCEPT !.s3_key = None], sftp.s3_key)
    /\ UNCHANGED <<ssmParameters, s3Objects, uploads,
                   apiVars, collVars, analyzerVars, passVars>>

\* The finally block: 'if sftp_client: sftp_client.close()', then
\* 'if ssh_client: ssh_client.close()'; a close() that raises ends the
\* block there, and its exception replaces the one in flight.
Finally(c, sftp_close_ok, ssh_close_ok) ==
    IF c.sftp_client /\ ~sftp_close_ok
    THEN [c EXCEPT !.raised = "sftp_close"]
    ELSE LET c1 == IF c.sftp_client THEN [c EXCEPT !.session = "closed"] ELSE c
         IN  IF c.ssh_client /\ ~ssh_close_ok
             THEN [c1 EXCEPT !.raised = "ssh_close"]
             ELSE IF c.ssh_client THEN [c1 EXCEPT !.ssh = "closed"] ELSE c1

\* collect_daily_data's finally block, then main()
SftpFinally ==
    /\ sftp.pc = "finally"
    /\ \E sftp_close_ok \in (IF sftp.sftp_client THEN Outcomes ELSE {TRUE}) :
       \E ssh_close_ok \in (IF sftp.ssh_client /\ sftp_close_ok THEN Outcomes ELSE {TRUE}) :
          LET c == Finally(sftp, sftp_close_ok, ssh_close_ok)
          IN  /\ Spend(sftp_close_ok /\ ssh_close_ok)
              /\ sftp' = [c EXCEPT !.pc = "exited", !.exit_code = main_exit(c.raised)]
    /\ UNCHANGED <<now, ssmParameters, s3Objects, metadataTable, uploads, putItemCalls,
                   apiVars, collVars, analyzerVars, passVars>>

-----------------------------------------------------------------------------
(* Weekly Analyzer: the figures analyze_power_markets computes from rows   *)

\* A row of the combined lseg table.  'price' is held in hundredths (the
\* float of the row is FromCents(price)); demand and supply are whole
\* numbers, demand > 0.
PowerRow(data_type, region, price, demand, supply) ==
    [data_type |-> data_type, region |-> region,
     price |-> price, demand |-> demand, supply |-> supply]

RowChoices ==
    { PowerRow("power_prices", "PJM",   4550, 85000, 90000),
      PowerRow("power_prices", "CAISO", 5230, 42000, 45000),
      PowerRow("power_prices", "PJM",   10,   100,   110),
      PowerRow("power_prices", "CAISO", 10,   100,   120),
      PowerRow("power_prices", "PJM",   5230, 100,   109),
      PowerRow("renewable_generation", "PJM", 9999, 1000, 1000) }

\* how many rows a table has at most
MaxRows == 3

PowerData == UNION {[1..n -> RowChoices] : n \in 0..MaxRows}

\* (the table taken whole, whatever the tag of a row)
FilterType_AllRows(power_data, data_type) == power_data

\* power_data[power_data['data_type'] == 'power_prices']
FilterType(power_data, data_type) ==
    SelectSeq(power_data, LAMBDA row : row.data_type = data_type)

\* power_prices[power_prices['region'] == region], the rows of one group
FilterRegion(power_prices, region) ==
    SelectSeq(power_prices, LAMBDA row : row.region = region)

PriceColumn(rows) == [i \in 1..Len(rows) |-> FromCents(rows[i].price)]

\* Series.sum() of a float column: the values added in order
RECURSIVE FSum(_)
FSum(xs) ==
    IF xs = <<>> THEN FloatZero
    ELSE FAdd(FSum(SubSeq(xs, 1, Len(xs) - 1)), xs[Len(xs)])

\* Series.mean(): the sum divided by the count
FMean(xs) == FDivInt(FSum(xs), Len(xs))

FMin(xs) == CHOOSE x \in {xs[i] : i \in 1..Len(xs)} : \A i \in 1..Len(xs) : FLeq(x, xs[i])
FMax(xs) == CHOOSE x \in {xs[i] : i \in 1..Len(xs)} : \A i \in 1..Len(xs) : FLeq(xs[i], x)

\* Series.sum() of a column of whole numbers
RECURSIVE IntSum(_, _)
IntSum(rows, column) ==
    IF rows = <<>> THEN 0 ELSE rows[1][column] + IntSum(Tail(rows), column)

\* analysis['summary'] (price_volatility, the standard deviation, left out)
summary(power_prices) ==
    LET prices == PriceColumn(power_prices)
    IN  [avg_price    |-> FMean(prices),
         min_price    |-> FMin(prices),
         max_price    |-> FMax(prices),
         total_demand |-> FromInt(IntSum(power_prices, "demand")),
         total_supply |-> FromInt(IntSum(power_prices, "supply"))]

\* the groups of groupby('region')
RegionsOf(rows) == {rows[i].region : i \in 1..Len(rows)}

\* analysis['regional_analysis']: per region the statistics of the group,
\* each rounded to two decimals (the standard deviation left out).  The
\* dict is keyed by (column, statistic) and then by region; here by region
\* and then by statistic.
regional_analysis(power_prices) ==
    [region \in RegionsOf(power_prices) |->
        LET group  == FilterRegion(power_prices, region)
            prices == PriceColumn(group)
        IN  [mean   |-> Round2(FMean(prices)),
             min    |-> Round2(FMin(prices)),
             max    |-> Round2(FMax(prices)),
             demand |-> Round2(FDivInt(FromInt(IntSum(group, "demand")), Len(group))),
             supply |-> Round2(FDivInt(FromInt(IntSum(group, "supply")), Len(group)))]]

\* power_prices['supply'] / power_prices['demand'], row by row
supply_demand_ratio(row) == FDivInt(FromInt(row.supply), row.demand)

\* the literal 1.1
TightThreshold == FromCents(110)

\* analysis['supply_demand']: the mean ratio, and the 'region' column of
\* the rows whose ratio is below 1.1, as a list
supply_demand(power_prices) ==
    LET ratios == [i \in 1..Len(power_prices) |-> supply_demand_ratio(power_prices[i])]
        tight  == SelectSeq(power_prices,
                      LAMBDA row : FLess(supply_demand_ratio(row), TightThreshold))
    IN  [avg_ratio     |-> FMean(ratios),
         tight_markets |-> [i \in 1..Len(tight) |-> tight[i].region]]

\* analyze_power_markets on a table whose rows have every column: the three
\* figures are None while they are the {} the pass starts from
power_market_figures(power_data) ==
    LET power_prices == FilterType(power_data, "power_prices")
    IN  IF power_data = <<>> \/ power_prices = <<>>
        THEN [summary |-> None, regional_analysis |-> None, supply_demand |-> None]
        ELSE [summary           |-> Some(summary(power_prices)),
              regional_analysis |-> Some(regional_analysis(power_prices)),
              supply_demand     |-> Some(supply_demand(power_prices))]

PassIdle ==
    [pc |-> "idle", power_data |-> <<>>, weather_data |-> <<>>, analysis |-> None]

\* self.analyze_power_markets(datasets['lseg'])
PassPowerMarkets ==
    /\ passRun.pc = "power_markets"
    /\ passRun' = [passRun EXCEPT !.pc = "returned",
                                  !.analysis = Some(power_market_figures(passRun.power_data))]
    /\ UNCHANGED <<apiVars, storeVars, collVars, sftpVars, analyzerVars>>

-----------------------------------------------------------------------------
(* analyze_weather_impact: the figures computed from the weather readings.
   A reading is a row of the weather table; temperatures and wind speeds are
   whole numbers here. The 95th percentile is kept as twenty times its value,
   which is a whole number for whole readings, so that the comparison at
   line 257 is exact: the interpolated threshold lies strictly between two
   different neighbouring readings, in floating point as in exact
   arithmetic, and equals them when they are equal. *)

WeatherRow(region, temperature, wind_speed) ==
    [region |-> region, temperature |-> temperature, wind_speed |-> wind_speed]

\* weather_data['region'].map({...}): None is pandas' NaN for a region
\* that is not in the dict
region_mapped(region) ==
    CASE region = "New York"     -> Some("NYISO")
      [] region = "California"   -> Some("CAISO")
      [] region = "Texas"        -> Some("ERCOT")
      [] region = "Pennsylvania" -> Some("PJM")
      [] OTHER                   -> None

TemperatureColumn(weather_data) ==
    [i \in 1..Len(weather_data) |-> weather_data[i].temperature]

\* Series.quantile(0.95) with linear interpolation, times twenty: the
\* position 0.95 * (n - 1) in the sorted readings, between its two
\* neighbours
quantile95(temperatures) ==
    LET sorted   == SortSeq(temperatures, LAMBDA a, b : a < b)
        n        == Len(sorted)
        position == 19 * (n - 1)
        i        == position \div 20
        fraction == position % 20
        lower    == sorted[i + 1]
        upper    == sorted[IF i + 2 <= n THEN i + 2 ELSE n]
    IN  20 * lower + (upper - lower) * fraction

\* (the threshold itself taken as extreme)
IsExtreme_AtOrAbove(temperature, temp_threshold) == 20 * temperature >= temp_threshold

\* weather_data['temperature'] > temp_threshold, for one reading
IsExtreme(temperature, temp_threshold) == 20 * temperature > temp_threshold

\* the loop over extreme_temp_events: one dict per row kept, in row order
\* (the timestamp of the event is not modelled)
extreme_weather_events(weather_data) ==
    LET temp_threshold == quantile95(TemperatureColumn(weather_data))
        extreme_temp_events ==
            SelectSeq(weather_data,
                      LAMBDA row : IsExtreme(row.temperature, temp_threshold))
    IN  [i \in 1..Len(extreme_temp_events) |->
            [region      |-> extreme_temp_events[i].region,
             temperature |-> extreme_temp_events[i].temperature,
             wind_speed  |-> extreme_temp_events[i].wind_speed]]

\* the keys of temp_price_corr: the mapped regions that have as many
\* readings as price rows, and at least one (the coefficient itself is not
\* modelled)
temperature_impact(weather_data, power_data) ==
    LET power_prices == FilterType(power_data, "power_prices")
        mapped == {region_mapped(weather_data[i].region)[1] :
                      i \in {j \in 1..Len(weather_data) :
                                region_mapped(weather_data[j].region) # None}}
        region_weather(region) ==
            SelectSeq(weather_data, LAMBDA row : region_mapped(row.region) = Some(region))
    IN  {region \in mapped :
            /\ Len(FilterRegion(power_prices, region)) > 0
            /\ Len(region_weather(region)) = Len(FilterRegion(power_prices, region))}

\* analyze_weather_impact on tables whose rows have every column
weather_impact(weather_data, power_data) ==
    IF weather_data = <<>> \/ power_data = <<>>
    THEN [temperature_impact |-> {}, extreme_weather_events |-> <<>>]
    ELSE [temperature_impact     |-> temperature_impact(weather_data, power_data),
          extreme_weather_events |-> extreme_weather_events(weather_data)]

\* self.analyze_weather_impact(datasets['weather'], datasets.get('lseg', ...))
PassWeatherImpact ==
    /\ passRun.pc = "weather_impact"
    /\ passRun' = [passRun EXCEPT
           !.pc = "returned",
           !.analysis = Some(weather_impact(passRun.weather_data, passRun.power_data))]
    /\ UNCHANGED <<apiVars, storeVars, collVars, sftpVars, analyzerVars>>

\* the readings a weather table is made of
ReadingChoices ==
    { WeatherRow("Pennsylvania", 80, 5), WeatherRow("California", 90, 12),
      WeatherRow("Pennsylvania", 95, 7), WeatherRow("Hawaii", 90, 20) }

MaxReadings == 3

\* eleven readings whose 95th percentile is 90: ten at or below 85 and one of 95
HistoricalReadings ==
    [i \in 1..11 |-> CASE i = 4  -> WeatherRow("Pennsylvania", 95, 7)
                       [] i = 7  -> WeatherRow("California", 85, 12)
                       [] i = 9  -> WeatherRow("Texas", 80, 9)
                       [] OTHER  -> WeatherRow("New York", 60 + i, 3)]

WeatherData ==
    UNION {[1..n -> ReadingChoices] : n \in 0..MaxReadings} \cup {HistoricalReadings}

\* the market tables given along with the readings: none, and the collector's
\* first two price rows with a renewable-generation row
MarketData ==
    { <<>>,
      << PowerRow("power_prices", "PJM", 4550, 85000, 90000) >>,
      << PowerRow("power_prices", "PJM", 4550, 85000, 90000),
         PowerRow("renewable_generation", "PJM", 9999, 1000, 1000),
         PowerRow("power_prices", "CAISO", 5230, 42000, 45000) >> }

-----------------------------------------------------------------------------
(* Weekly Analyzer: the three analysis passes *)

\* A value of an analysis dict: "empty" is the {} (or []) the pass starts
\* from, "filled" a dict with string keys, "tuple_keyed" the dict of a
\* frame with two-level columns (groupby().agg({'price': [...]}).to_dict()
\* is keyed by (column, statistic) pairs), "with_mean" the dict of the
\* indicator statistics
\* (statistic -> indicator -> figure) of a table in which an indicator is
\* itself named 'mean', so that every inner dict has the key 'mean'.

\* The tables a pass may be given, by their rows
PowerTables ==
    { <<>>,
      << PowerRow("power_prices", "PJM", 4550, 85000, 90000) >>,
      << PowerRow("power_prices", "PJM", 4550, 85000, 90000),
         PowerRow("renewable_generation", "PJM", 9999, 1000, 1000) >>,
      << PowerRow("renewable_generation", "PJM", 9999, 1000, 1000) >> }

\* pd.DataFrame()
EmptyTable == <<>>

\* one reading (nothing above the percentile, as many readings as price
\* rows for PJM); two readings of one region (one above the percentile,
\* more readings than price rows); readings of two regions; a region that
\* is not mapped
WeatherTables ==
    { <<>>,
      << WeatherRow("Pennsylvania", 80, 5) >>,
      << WeatherRow("Pennsylvania", 80, 5), WeatherRow("Pennsylvania", 95, 7) >>,
      << WeatherRow("Pennsylvania", 80, 5), WeatherRow("California", 90, 12) >>,
      << WeatherRow("Hawaii", 90, 20) >> }

\* A row of the combined economic table
EconomicRow(indicator, value) == [indicator |-> indicator, value |-> value]

EconomicTables ==
    { <<>>,
      << EconomicRow("gdp_growth", 2) >>,
      << EconomicRow("crude_oil_wti", 75), EconomicRow("gdp_growth", 2) >>,
      << EconomicRow("mean", 1) >> }

\* The statement of a pass at which an exception is raised (0: none).
\* analyze_power_markets: 1 the two filters, 2 the summary, 3 the regional
\* statistics, 4 the volatility, 5 the supply/demand balance, 6 the
\* renewable statistics
PowerFailPoints == 0..6
\* analyze_weather_impact: 1 the region mapping and the correlations,
\* 2 the temperature threshold, 3 the body of the loop over the extreme
\* events, on its first pass
WeatherFailPoints == 0..3
\* analyze_economic_indicators: 1 the indicator statistics, 2 the
\* commodity statistics, 3 the pivot and the correlations
EconomicFailPoints == 0..3

PowerDefault ==
    [summary |-> "empty", regional_analysis |-> "empty",
     price_volatility |-> "empty", supply_demand |-> "empty"]

\* whether statement k of analyze_power_markets is executed on this table:
\* 'if not power_prices.empty', 'if not renewable_gen.empty'
PowerRuns(power_data, k) ==
    CASE k = 1 -> TRUE
      [] k \in 2..5 -> FilterType(power_data, "power_prices") # <<>>
      [] k = 6 -> FilterType(power_data, "renewable_generation") # <<>>
      [] OTHER -> FALSE

\* whether the pass ends in its except branch
PowerRaised(power_data, fail_at) ==
    power_data # <<>> /\ fail_at # 0 /\ PowerRuns(power_data, fail_at)

\* analyze_power_markets: 'analysis' is filled key by key inside the try
\* and returned as it stands by the except branch.
analyze_power_markets(power_data, fail_at) ==
    LET failed  == PowerRaised(power_data, fail_at)
        done(k) == PowerRuns(power_data, k) /\ (~failed \/ k < fail_at)
        analysis ==
            [summary           |-> IF done(2) THEN "filled" ELSE "empty",
             regional_analysis |-> IF done(3) THEN "tuple_keyed" ELSE "empty",
             price_volatility  |-> IF done(4) THEN "filled" ELSE "empty",
             supply_demand     |-> IF done(5) THEN "filled" ELSE "empty"]
    IN  IF power_data = <<>> THEN PowerDefault
        ELSE IF done(6) THEN analysis @@ [renewable_analysis |-> "filled"]
        ELSE analysis

WeatherDefault ==
    [temperature_impact |-> "empty", weather_correlations |-> "empty",
     extreme_weather_events |-> "empty"]

\* whether statement k of analyze_weather_impact is executed: the body of
\* the loop over the extreme events only when there is one
WeatherRuns(weather_data, k) ==
    CASE k \in {1, 2} -> TRUE
      [] k = 3 -> extreme_weather_events(weather_data) # <<>>
      [] OTHER -> FALSE

WeatherRaised(weather_data, power_data, fail_at) ==
    /\ weather_data # <<>> /\ power_data # <<>>
    /\ fail_at # 0 /\ WeatherRuns(weather_data, fail_at)

\* analyze_weather_impact: temperature_impact is assigned after the
\* correlations and stays {} when no mapped region has as many readings as
\* price rows; the events are appended one by one, none when no
\* temperature is above the 95th percentile. The dict of an event is built
\* before it is appended, so an exception on the first pass of the loop
\* leaves the list as empty as it started.
analyze_weather_impact(weather_data, power_data, fail_at) ==
    LET failed  == WeatherRaised(weather_data, power_data, fail_at)
        figures == weather_impact(weather_data, power_data)
    IN  IF weather_data = <<>> \/ power_data = <<>> THEN WeatherDefault
        ELSE [temperature_impact |->
                  IF (failed /\ fail_at = 1) \/ figures.temperature_impact = {}
                  THEN "empty" ELSE "filled",
              weather_correlations |-> "empty",
              extreme_weather_events |->
                  IF failed \/ figures.extreme_weather_events = <<>>
                  THEN "empty" ELSE "filled"]

EconomicDefault ==
    [commodity_trends |-> "empty", market_indicators |-> "empty",
     correlations |-> "empty"]

energy_commodities == {"crude_oil_wti", "natural_gas_henry_hub", "coal_price"}

\* economic_data[economic_data['indicator'].isin(energy_commodities)]
energy_data(economic_data) ==
    SelectSeq(economic_data, LAMBDA row : row.indicator \in energy_commodities)

\* the columns of economic_data.pivot(columns='indicator', values='value'),
\* which are the groups of groupby('indicator') too
IndicatorNames(economic_data) ==
    {economic_data[i].indicator : i \in 1..Len(economic_data)}

\* whether statement k of analyze_economic_indicators is executed: the
\* commodity statistics only 'if not energy_data.empty'
EconomicRuns(economic_data, k) ==
    CASE k \in {1, 3} -> TRUE
      [] k = 2 -> energy_data(economic_data) # <<>>
      [] OTHER -> FALSE

EconomicRaised(economic_data, fail_at) ==
    economic_data # <<>> /\ fail_at # 0 /\ EconomicRuns(economic_data, fail_at)

\* analyze_economic_indicators: market_indicators, commodity_trends and
\* correlations are assigned in this order, commodity_trends only when the
\* table has rows of an energy commodity and correlations only
\* 'if len(pivot_data.columns) > 1'.
analyze_economic_indicators(economic_data, fail_at) ==
    LET failed  == EconomicRaised(economic_data, fail_at)
        done(k) == ~failed \/ k < fail_at
    IN  IF economic_data = <<>> THEN EconomicDefault
        ELSE [market_indicators |->
                  IF ~done(1) THEN "empty"
                  ELSE IF "mean" \in IndicatorNames(economic_data) THEN "with_mean"
                  ELSE "filled",
              commodity_trends |->
                  IF done(2) /\ energy_data(economic_data) # <<>>
                  THEN "filled" ELSE "empty",
              correlations |->
                  IF done(3) /\ Cardinality(IndicatorNames(economic_data)) > 1
                  THEN "filled" ELSE "empty"]

-----------------------------------------------------------------------------
(* Weekly Analyzer: the steps of run_weekly_analysis *)

\* load_recent_data's result: per source the combined table, or None for
\* a source no object was loaded from
DatasetChoices ==
    [lseg     : {None} \cup {Some(d) : d \in PowerTables},
     weather  : {None} \cup {Some(d) : d \in WeatherTables},
     economic : {None} \cup {Some(d) : d \in EconomicTables}]

\* {}
NoDatasets == [lseg |-> None, weather |-> None, economic |-> None]

\* the passes that were run and ended in their except branch
passes_raised(datasets, power_fail, weather_fail, economic_fail) ==
    LET power_data == IF datasets.lseg = None THEN EmptyTable ELSE datasets.lseg[1]
    IN  (IF datasets.lseg # None /\ PowerRaised(power_data, power_fail)
         THEN {"power_markets"} ELSE {})
        \cup (IF datasets.weather # None
                 /\ WeatherRaised(datasets.weather[1], power_data, weather_fail)
              THEN {"weather_impact"} ELSE {})
        \cup (IF datasets.economic # None
                 /\ EconomicRaised(datasets.economic[1], economic_fail)
              THEN {"economic_indicators"} ELSE {})

\* Step 2 of run_weekly_analysis: one pass per dataset that was loaded
\* (the weather pass is given pd.DataFrame() when there is no lseg table)
analysis_passes(datasets, power_fail, weather_fail, economic_fail) ==
    [power_markets |->
        IF datasets.lseg = None THEN None
        ELSE Some(analyze_power_markets(datasets.lseg[1], power_fail)),
     weather_impact |->
        IF datasets.weather = None THEN None
        ELSE Some(analyze_weather_impact(
                      datasets.weather[1],
                      IF datasets.lseg = None THEN EmptyTable ELSE datasets.lseg[1],
                      weather_fail)),
     economic_indicators |->
        IF datasets.economic = None THEN None
        ELSE Some(analyze_economic_indicators(datasets.economic[1], economic_fail))]

NoResults == [power_markets |-> None, weather_impact |-> None, economic_indicators |-> None]

\* json.dumps(..., default=str) raises TypeError on a dict whose keys are
\* tuples, at any depth
json_dumps_ok(analysis_data) ==
    \A k \in DOMAIN analysis_data :
        analysis_data[k] # None =>
            \A f \in DOMAIN analysis_data[k][1] : analysis_data[k][1][f] # "tuple_keyed"

\* the text the language model returned
Insights(text) == [fallback |-> FALSE, text |-> text]

\* f"AI analysis unavailable due to technical issues. Error: {str(e)}"
Fallback(e) == [fallback |-> TRUE, text |-> e]

NoInsights == [fallback |-> FALSE, text |-> ""]

\* (the error of the language-model call leaving the method)
generate_claude_insights_raise(analysis_data, llm_ok) ==
    IF ~json_dumps_ok(analysis_data) THEN Ret(Fallback("TypeError"))
    ELSE IF ~llm_ok THEN Raise("APIError")
    ELSE Ret(Insights("insights"))

\* generate_claude_insights: the prompt is built from the analysis with
\* json.dumps, then messages.create is called; any exception gives the
\* fallback text.
generate_claude_insights(analysis_data, llm_ok) ==
    IF ~json_dumps_ok(analysis_data) THEN Ret(Fallback("TypeError"))
    ELSE IF ~llm_ok THEN Ret(Fallback("APIError"))
    ELSE Ret(Insights("insights"))

\* dict.get(name) is truthy
Truthy(pass_result, name) ==
    pass_result # None /\ pass_result[1][name] # "empty"

\* create_visualizations: the files appended before an exception.  The
\* regional chart reads regional_data[region]['price'] for each key of
\* regional_analysis; the keys are (column, statistic) pairs, so the lookup
\* raises KeyError and the method returns what it has, nothing.  Otherwise
\* the indicator chart reads indicators[ind]['mean'] for each key of
\* market_indicators; the keys are the statistic names and the values
\* dicts keyed by indicator, so the lookup raises KeyError unless an
\* indicator is named 'mean', and then the chart is saved.
create_visualizations(analysis_data) ==
    IF Truthy(analysis_data.power_markets, "regional_analysis") THEN <<>>
    ELSE IF Truthy(analysis_data.economic_indicators, "market_indicators")
            /\ analysis_data.economic_indicators[1].market_indicators = "with_mean"
    THEN <<"economic_indicators.png">>
    ELSE <<>>

\* generate_pdf_report: the report file, or "" (None here) on any
\* exception: the data appendix reads regional_data[region]['price'] like
\* the regional chart; build_ok is doc.build(story) and the markup of the
\* paragraphs.
generate_pdf_report(analysis_data, claude_insights, viz_files, build_ok) ==
    IF Truthy(analysis_data.power_markets, "regional_analysis") THEN None
    ELSE IF ~build_ok THEN None
    ELSE Some([insights |-> claude_insights, charts |-> Len(viz_files)])

\* the keys save_results_to_s3 writes under reports/
ReportKey(kind, t) ==
    [layout |-> "reports/", name |-> kind, stamp |-> SecondOf(t)]

AnalysisAttempt == <<"analysis", "run">>

\* f"reports/visualizations/{Path(viz_file).name}_{timestamp}", without
\* the layout and the stamp
VizKeyName(viz_file) ==
    CASE viz_file = "power_market_analysis.png" -> "visualizations/power_market_analysis.png"
      [] viz_file = "economic_indicators.png"   -> "visualizations/economic_indicators.png"

\* the object a chart is uploaded as
VizObject(viz_file, t) ==
    [key |-> ReportKey(VizKeyName(viz_file), t), record_count |-> 0,
     writer |-> AnalysisAttempt, insights |-> NoInsights]

\* the JSON result as it is uploaded (json.dumps of analysis_json)
JsonObject(claude_insights, t) ==
    [key |-> ReportKey("json", t), record_count |-> 0,
     writer |-> AnalysisAttempt, insights |-> claude_insights]

\* the PDF report as it is uploaded
PdfObject(pdf_file, t) ==
    [key |-> ReportKey("pdf", t), record_count |-> 0,
     writer |-> AnalysisAttempt,
     insights |-> IF pdf_file = None THEN NoInsights ELSE pdf_file[1].insights]

\* save_results_to_s3 from its call to its return: the JSON result, then
\* the PDF if there is one, then the charts one by one (viz_fail: the chart
\* whose put_object raises, 0 for none); the first exception (json.dumps
\* or a put_object) ends it with False and leaves what was already
\* uploaded. Each put_object is a call of its own: see AnalyzerSave,
\* AnalyzerSavePdf and AnalyzerSaveChart.
save_results_to_s3(objects, analysis_data, claude_insights, pdf_file, viz_files, t, json_put_ok, pdf_put_ok, viz_fail) ==
    LET json_obj == JsonObject(claude_insights, t)
        pdf_obj  == PdfObject(pdf_file, t)
        with_json == PutObject(objects, json_obj)
        with_pdf  == IF pdf_file = None THEN with_json ELSE PutObject(with_json, pdf_obj)
        reports   == IF pdf_file = None THEN {json_obj.key} ELSE {json_obj.key, pdf_obj.key}
        saved     == IF viz_fail = 0 THEN Len(viz_files) ELSE viz_fail - 1
        charts    == {VizObject(viz_files[i], t) : i \in 1..saved}
    IN  IF ~json_dumps_ok(analysis_data) \/ ~json_put_ok
        THEN [ok |-> FALSE, objects |-> objects, uploaded |-> {}]
        ELSE IF pdf_file # None /\ ~pdf_put_ok
        THEN [ok |-> FALSE, objects |-> with_json, uploaded |-> {json_obj.key}]
        ELSE [ok |-> viz_fail = 0,
              objects |-> {o \in with_pdf : \A c \in charts : o.key # c.key} \cup charts,
              uploaded |-> reports \cup {c.key : c \in charts}]

\* the item update_analysis_metadata builds ('environment' and 'ttl' left
\* out; 'attempt' is history); error_message only 'if error_message'
AnalysisItem(success, error_message, t) ==
    LET item == [data_source |-> "weekly_analysis",
                 timestamp |-> t,
                 success |-> success,
                 analysis_type |-> "comprehensive_market_analysis",
                 attempt |-> AnalysisAttempt]
    IN  IF error_message = None THEN item
        ELSE item @@ [error_message |-> error_message[1]]

\* the configuration main() validates
AnalyzerConfig == {"S3_BUCKET", "DYNAMODB_TABLE"}

AnalyzerIdle ==
    [pc |-> "start", env |-> AnalyzerConfig,
     datasets |-> NoDatasets, analysis_results |-> NoResults,
     claude_insights |-> NoInsights, viz_files |-> <<>>, pdf_file |-> None,
     save_success |-> FALSE, status |-> "none", error |-> None,
     timestamp |-> None,     \* save_results_to_s3's stamp, while it runs
     chart |-> 0,            \* the chart save_results_to_s3's loop is at
     llm_calls |-> 0,        \* history: calls of messages.create
     llm_failed |-> FALSE,   \* history: messages.create raised
     raised_in |-> {},       \* history: the passes that ended in their except branch
     steps |-> <<>>,         \* history: the steps of the workflow that ran
     exit_code |-> None]

\* main(): sys.exit(0) when the status is 'success', sys.exit(1) otherwise
analyzer_exit(status) == IF status = "success" THEN Some(0) ELSE Some(1)

\* main() up to run_weekly_analysis: the two environment variables are
\* validated, then EnergyMarketAnalyzer() reads the API key; an exception
\* there reaches main's except, which exits 1.
AnalyzerMain ==
    /\ analyzer.pc = "start"
    /\ IF ~(AnalyzerConfig \subseteq analyzer.env)
       THEN /\ analyzer' = [analyzer EXCEPT !.pc = "exited", !.exit_code = Some(1)]
            /\ UNCHANGED faultsLeft
       ELSE \E init_ok \in Outcomes :
               /\ Spend(init_ok)
               /\ analyzer' =
                     IF init_ok
                     THEN [analyzer EXCEPT !.pc = "load",
                                           !.steps = Append(@, "init")]
                     ELSE [analyzer EXCEPT !.pc = "exited",
                                           !.steps = Append(@, "init"),
                                           !.error = Some("setup_claude_client"),
                                           !.exit_code = Some(1)]
    /\ UNCHANGED <<now, ssmParameters, s3Objects, metadataTable, uploads, putItemCalls,
                   apiVars, collVars, sftpVars, passVars>>

\* (Step 1 without 'if not datasets: raise': the workflow goes on with {})
AnalyzerLoad_GoOn ==
    /\ analyzer.pc = "load"
    /\ \E load_ok \in Outcomes, loaded \in DatasetChoices :
          /\ Spend(load_ok)
          /\ analyzer' = [analyzer EXCEPT
                 !.pc = "analyze",
                 !.steps = Append(@, "load"),
                 !.datasets = IF load_ok THEN loaded ELSE NoDatasets]
    /\ UNCHANGED <<now, ssmParameters, s3Objects, metadataTable, uploads, putItemCalls,
                   apiVars, collVars, sftpVars, passVars>>

\* Step 1: load_recent_data, which returns {} when the listing or the
\* combining raises; 'if not datasets: raise Exception(...)'
AnalyzerLoad ==
    /\ analyzer.pc = "load"
    /\ \E load_ok \in Outcomes, loaded \in DatasetChoices :
          LET datasets == IF load_ok THEN loaded ELSE NoDatasets
          IN  /\ Spend(load_ok)
              /\ analyzer' =
                    IF datasets = NoDatasets
                    THEN [analyzer EXCEPT !.pc = "fail",
                                          !.steps = Append(@, "load"),
                                          !.error = Some("No data available for analysis")]
                    ELSE [analyzer EXCEPT !.pc = "analyze",
                                          !.steps = Append(@, "load"),
                                          !.datasets = datasets]
    /\ UNCHANGED <<now, ssmParameters, s3Objects, metadataTable, uploads, putItemCalls,
                   apiVars, collVars, sftpVars, passVars>>

\* Step 2: the analysis passes
AnalyzerPasses ==
    /\ analyzer.pc = "analyze"
    /\ \E power_fail \in PowerFailPoints, weather_fail \in WeatherFailPoints,
          economic_fail \in EconomicFailPoints :
          analyzer' = [analyzer EXCEPT
              !.pc = "insights",
              !.steps = Append(@, "passes"),
              !.raised_in =
                  passes_raised(analyzer.datasets, power_fail, weather_fail, economic_fail),
              !.analysis_results =
                  analysis_passes(analyzer.datasets, power_fail, weather_fail, economic_fail)]
    /\ UNCHANGED <<storeVars, apiVars, collVars, sftpVars, passVars>>

\* run_weekly_analysis's except branch taken with error e
AnalyzerRaise(c, step, e) ==
    [c EXCEPT !.pc = "fail", !.steps = Append(@, step), !.error = Some(e)]

\* Step 3: generate_claude_insights
AnalyzerInsights ==
    /\ analyzer.pc = "insights"
    /\ LET called == json_dumps_ok(analyzer.analysis_results)
       IN  \E llm_ok \in (IF called THEN Outcomes ELSE {TRUE}) :
              LET out == generate_claude_insights(analyzer.analysis_results, llm_ok)
                  c   == [analyzer EXCEPT
                             !.llm_calls = IF called THEN @ + 1 ELSE @,
                             !.llm_failed = called /\ ~llm_ok]
              IN  /\ Spend(llm_ok)
                  /\ analyzer' =
                        IF out.exc THEN AnalyzerRaise(c, "insights", out.err)
                        ELSE [c EXCEPT !.pc = "report",
                                       !.steps = Append(@, "insights"),
                                       !.claude_insights = out.val]
    /\ UNCHANGED <<now, ssmParameters, s3Objects, metadataTable, uploads, putItemCalls,
                   apiVars, collVars, sftpVars, passVars>>

\* Steps 4 and 5: create_visualizations, then generate_pdf_report
AnalyzerReport ==
    /\ analyzer.pc = "report"
    /\ \E build_ok \in Outcomes :
          LET viz_files == create_visualizations(analyzer.analysis_results)
              pdf_file  == generate_pdf_report(analyzer.analysis_results,
                               analyzer.claude_insights, viz_files, build_ok)
          IN  /\ Spend(build_ok)
              /\ analyzer' = [analyzer EXCEPT !.pc = "save",
                                              !.steps = Append(@, "report"),
                                              !.viz_files = viz_files,
                                              !.pdf_file = pdf_file]
    /\ UNCHANGED <<now, ssmParameters, s3Objects, metadataTable, uploads, putItemCalls,
                   apiVars, collVars, sftpVars, passVars>>

\* save_results_to_s3 goes on after a put_object that returned: to the PDF
\* ('if pdf_file and Path(pdf_file).exists()'), to the next chart, or to
\* 'return True'
SaveGoesOn(c, done) ==
    IF done = "json" /\ c.pdf_file # None THEN [c EXCEPT !.pc = "save_pdf"]
    ELSE IF (IF done = "chart" THEN c.chart ELSE 0) < Len(c.viz_files)
    THEN [c EXCEPT !.pc = "save_chart",
                   !.chart = IF done = "chart" THEN @ + 1 ELSE 1]
    ELSE [c EXCEPT !.pc = "meta", !.save_success = TRUE,
                   !.timestamp = None, !.chart = 0]

\* save_results_to_s3's except branch: 'return False'
SaveFails(c) ==
    [c EXCEPT !.pc = "meta", !.save_success = FALSE, !.timestamp = None, !.chart = 0]

\* Step 6, up to the first put_object's return: save_results_to_s3 reads
\* the clock for its stamp and puts the JSON result; json.dumps raising
\* ends it before any call.
AnalyzerSave ==
    /\ analyzer.pc = "save"
    /\ LET dumped == json_dumps_ok(analyzer.analysis_results)
       IN  \E t \in ClockReads, json_put_ok \in (IF dumped THEN Outcomes ELSE {TRUE}) :
              LET json_obj == JsonObject(analyzer.claude_insights, t)
                  c == [analyzer EXCEPT !.steps = Append(@, "save"),
                                        !.timestamp = Some(t)]
              IN  /\ Spend(json_put_ok)
                  /\ now' = t
                  /\ IF dumped /\ json_put_ok
                     THEN /\ s3Objects' = PutObject(s3Objects, json_obj)
                          /\ uploads' = uploads \cup
                                 {[key |-> json_obj.key, attempt |-> AnalysisAttempt]}
                          /\ analyzer' = SaveGoesOn(c, "json")
                     ELSE /\ UNCHANGED <<s3Objects, uploads>>
                          /\ analyzer' = SaveFails(c)
    /\ UNCHANGED <<ssmParameters, metadataTable, putItemCalls, apiVars, collVars, sftpVars, passVars>>

\* Step 6, the second put_object: the PDF report
AnalyzerSavePdf ==
    /\ analyzer.pc = "save_pdf"
    /\ \E pdf_put_ok \in Outcomes :
          LET pdf_obj == PdfObject(analyzer.pdf_file, analyzer.timestamp[1])
          IN  /\ Spend(pdf_put_ok)
              /\ IF pdf_put_ok
                 THEN /\ s3Objects' = PutObject(s3Objects, pdf_obj)
                      /\ uploads' = uploads \cup
                             {[key |-> pdf_obj.key, attempt |-> AnalysisAttempt]}
                      /\ analyzer' = SaveGoesOn(analyzer, "pdf")
                 ELSE /\ UNCHANGED <<s3Objects, uploads>>
                      /\ analyzer' = SaveFails(analyzer)
    /\ UNCHANGED <<now, ssmParameters, metadataTable, putItemCalls, apiVars, collVars, sftpVars, passVars>>

\* Step 6, one turn of 'for viz_file in viz_files': the put_object of a chart
AnalyzerSaveChart ==
    /\ analyzer.pc = "save_chart"
    /\ \E viz_put_ok \in Outcomes :
          LET viz_obj == VizObject(analyzer.viz_files[analyzer.chart], analyzer.timestamp[1])
          IN  /\ Spend(viz_put_ok)
              /\ IF viz_put_ok
                 THEN /\ s3Objects' = PutObject(s3Objects, viz_obj)
                      /\ uploads' = uploads \cup
                             {[key |-> viz_obj.key, attempt |-> AnalysisAttempt]}
                      /\ analyzer' = SaveGoesOn(analyzer, "chart")
                 ELSE /\ UNCHANGED <<s3Objects, uploads>>
                      /\ analyzer' = SaveFails(analyzer)
    /\ UNCHANGED <<now, ssmParameters, metadataTable, putItemCalls, apiVars, collVars, sftpVars, passVars>>

\* update_analysis_metadata: put_item, a failure of which is logged and
\* swallowed
update_analysis_metadata(table, success, error_message, t, put_ok) ==
    update_metadata(table, AnalysisItem(success, error_message, t), put_ok)

\* error_message = f"Weekly analysis failed: {str(e)}"
FailureMessage(e) == <<"Weekly analysis failed: ", e>>

\* (the except branch returning the failure without recording it)
AnalyzerFailed_NoRecord(table, error, t, put_ok) ==
    [table |-> table, calls |-> {}]

\* run_weekly_analysis's except branch: the failure record
AnalyzerFailed(table, error, t, put_ok) ==
    LET error_message == Some(FailureMessage(error[1]))
    IN  [table |-> update_analysis_metadata(table, FALSE, error_message, t, put_ok),
         calls |-> {[item |-> AnalysisItem(FALSE, error_message, t), ok |-> put_ok]}]

\* Step 7: the success record, then the summary with status 'success'
AnalyzerMeta ==
    /\ analyzer.pc = "meta"
    /\ \E t \in ClockReads, put_ok \in Outcomes :
          /\ Spend(put_ok)
          /\ now' = t
          /\ metadataTable' = update_analysis_metadata(metadataTable, TRUE, None, t, put_ok)
          /\ putItemCalls' = putItemCalls \cup
                 {[item |-> AnalysisItem(TRUE, None, t), ok |-> put_ok]}
          /\ analyzer' = [analyzer EXCEPT !.pc = "exit",
                                          !.steps = Append(@, "meta"),
                                          !.status = "success"]
    /\ UNCHANGED <<ssmParameters, s3Objects, uploads, apiVars, collVars, sftpVars, passVars>>

\* 'except Exception as e': the failure record, then the dict with status
\* 'failed'
AnalyzerFail ==
    /\ analyzer.pc = "fail"
    /\ \E t \in ClockReads, put_ok \in Outcomes :
          LET failed == AnalyzerFailed(metadataTable, analyzer.error, t, put_ok)
          IN  /\ Spend(put_ok)
              /\ now' = t
              /\ metadataTable' = failed.table
              /\ putItemCalls' = putItemCalls \cup failed.calls
              /\ analyzer' = [analyzer EXCEPT !.pc = "exit",
                                              !.status = "failed",
                                              !.error = Some(FailureMessage(@[1]))]
    /\ UNCHANGED <<ssmParameters, s3Objects, uploads, apiVars, collVars, sftpVars, passVars>>

\* main() after run_weekly_analysis returned
AnalyzerExit ==
    /\ analyzer.pc = "exit"
    /\ analyzer' = [analyzer EXCEPT !.pc = "exited",
                                    !.exit_code = analyzer_exit(analyzer.status)]
    /\ UNCHANGED <<storeVars, apiVars, collVars, sftpVars, passVars>>

-----------------------------------------------------------------------------
(* Specifications *)

InitStores ==
    /\ now = 0
    /\ s3Objects = {}
    /\ metadataTable = {}
    /\ uploads = {}
    /\ putItemCalls = {}

InitSftpIdle == sftp = SftpIdle /\ analyzer = AnalyzerIdle /\ passRun = PassIdle

InitApiIdle ==
    /\ apiPc = "idle"
    /\ event = NoEvent
    /\ response = NoResponse
    /\ escaped = "none"
    /\ storeCalls = <<>>

\* The API Handler alone
InitApi ==
    /\ InitApiIdle
    /\ InitSftpIdle
    /\ InitStores
    /\ ssmParameters = {}
    /\ faultsLeft = 0
    /\ active = {}
    /\ collector = [r \in Runs |-> CollectorIdle]

NextApi ==
    \/ ApiReceive
    \/ ApiOptions
    \/ ApiHealth
    \/ ApiDataSources
    \/ ApiSummary
    \/ ApiRecent
    \/ ApiFiles
    \/ ApiNotFound

SpecApi == InitApi /\ [][NextApi]_vars

NextCollector ==
    \/ \E r \in Runs : CollectorConstruct(r)
    \/ \E r \in Runs : CollectorProcess(r)
    \/ \E r \in Runs : CollectorMeta(r)
    \/ \E r \in Runs : CollectorRespond(r)

\* One run of the API Data Collector
InitCollector ==
    /\ InitApiIdle
    /\ InitSftpIdle
    /\ InitStores
    /\ ssmParameters \in SUBSET OptionalParameters
    /\ faultsLeft = MaxFaults
    /\ active = {"r1"}
    /\ collector = [r \in Runs |-> CollectorIdle]

SpecCollector == InitCollector /\ [][NextCollector]_vars

\* Two runs of the API Data Collector, triggered independently
InitCollectorPair ==
    /\ InitApiIdle
    /\ InitSftpIdle
    /\ InitStores
    /\ ssmParameters \in SUBSET OptionalParameters
    /\ faultsLeft = MaxPairFaults
    /\ active = Runs
    /\ collector = [r \in Runs |-> CollectorIdle]

SpecCollectorPair == InitCollectorPair /\ [][NextCollector]_vars

NextSftp ==
    \/ SftpConstruct
    \/ SftpConnect
    \/ SftpList
    \/ SftpFile
    \/ SftpMetadata
    \/ SftpFinally

\* One run of the SFTP Collector, started with any part of its configuration
InitSftp ==
    /\ InitApiIdle
    /\ now \in RunStarts
    /\ s3Objects = {}
    /\ metadataTable = {}
    /\ uploads = {}
    /\ putItemCalls = {}
    /\ ssmParameters = {}
    /\ faultsLeft = MaxFaults
    /\ active = {}
    /\ collector = [r \in Runs |-> CollectorIdle]
    /\ \E env \in Environments : sftp = [SftpIdle EXCEPT !.env = env]
    /\ analyzer = AnalyzerIdle
    /\ passRun = PassIdle

SpecSftp == InitSftp /\ [][NextSftp]_vars

NextAnalyzer ==
    \/ AnalyzerMain
    \/ AnalyzerLoad
    \/ AnalyzerPasses
    \/ AnalyzerInsights
    \/ AnalyzerReport
    \/ AnalyzerSave
    \/ AnalyzerSavePdf
    \/ AnalyzerSaveChart
    \/ AnalyzerMeta
    \/ AnalyzerFail
    \/ AnalyzerExit

\* One run of the Weekly Analyzer, with any part of its configuration set
InitAnalyzer ==
    /\ InitApiIdle
    /\ InitStores
    /\ ssmParameters = {}
    /\ faultsLeft = MaxFaults
    /\ active = {}
    /\ collector = [r \in Runs |-> CollectorIdle]
    /\ sftp = SftpIdle
    /\ \E env \in SUBSET AnalyzerConfig : analyzer = [AnalyzerIdle EXCEPT !.env = env]
    /\ passRun = PassIdle

SpecAnalyzer == InitAnalyzer /\ [][NextAnalyzer]_vars

NextPowerPass == PassPowerMarkets

\* One call of analyze_power_markets on any table of at most MaxRows rows
InitPowerPass ==
    /\ InitApiIdle
    /\ InitStores
    /\ ssmParameters = {}
    /\ faultsLeft = 0
    /\ active = {}
    /\ collector = [r \in Runs |-> CollectorIdle]
    /\ sftp = SftpIdle
    /\ analyzer = AnalyzerIdle
    /\ \E power_data \in PowerData :
           passRun = [PassIdle EXCEPT !.pc = "power_markets", !.power_data = power_data]

SpecPowerPass == InitPowerPass /\ [][NextPowerPass]_vars

NextWeatherPass == PassWeatherImpact

\* One call of analyze_weather_impact on any table of at most MaxReadings
\* readings, or on the historical readings, with one of the market tables
InitWeatherPass ==
    /\ InitApiIdle
    /\ InitStores
    /\ ssmParameters = {}
    /\ faultsLeft = 0
    /\ active = {}
    /\ collector = [r \in Runs |-> CollectorIdle]
    /\ sftp = SftpIdle
    /\ analyzer = AnalyzerIdle
    /\ \E weather_data \in WeatherData, power_data \in MarketData :
           passRun = [PassIdle EXCEPT !.pc = "weather_impact",
                                      !.weather_data = weather_data,
                                      !.power_data = power_data]

SpecWeatherPass == InitWeatherPass /\ [][NextWeatherPass]_vars

\* the status route answered 200 from the items its scan returned
StatusReported ==
    /\ apiPc = "done"
    /\ Route(event) = "data_sources"
    /\ response.statusCode = 200

\* the sum of a whole-number function over a finite set of its arguments
RECURSIVE SumOf(_, _)
SumOf(f, S) ==
    IF S = {} THEN 0
    ELSE LET x == CHOOSE x \in S : TRUE IN f[x] + SumOf(f, S \ {x})

\* the greatest of a non-empty finite set of numbers
Greatest(S) == CHOOSE x \in S : \A y \in S : y <= x

\* C29: for the records its scan returned, the status route reports one
\* entry per distinct source (total_sources counts them), and in the entry
\* of a source: success_count and failure_count are the numbers of its
\* successful and failed records (so they add up to the number of its
\* records), total_records is the sum of record_count over its successful
\* records only, last_attempt is the greatest timestamp of its records,
\* last_success the greatest timestamp of its successful records, or null
\* when it has none, so that last_success <= last_attempt when it is set.
C29_StatusTallies ==
    StatusReported =>
        LET items   == storeCalls[1].returned.val
            entries == response.body.data_sources
            sources == {items[i].data_source : i \in 1..Len(items)}
            of(source)   == {i \in 1..Len(items) : items[i].data_source = source}
            good(source) == {i \in of(source) : items[i].success}
            counts  == [i \in 1..Len(items) |-> Get(items[i], "record_count", 0)]
        IN  /\ response.body.total_sources = Cardinality(sources)
            /\ Len(entries) = Cardinality(sources)
            /\ \A source \in sources :
                   \E k \in 1..Len(entries) :
                       LET entry == entries[k]
                       IN  /\ entry.name = source
                           /\ entry.success_count = Cardinality(good(source))
                           /\ entry.failure_count = Cardinality(of(source) \ good(source))
                           /\ entry.success_count + entry.failure_count =
                                  Cardinality(of(source))
                           /\ entry.total_records = SumOf(counts, good(source))
                           /\ entry.last_attempt =
                                  Some(Greatest({items[i].timestamp : i \in of(source)}))
                           /\ entry.last_success =
                                  IF good(source) = {} THEN None
                                  ELSE Some(Greatest({items[i].timestamp : i \in good(source)}))
                           /\ entry.last_success # None =>
                                  entry.last_success[1] <= entry.last_attempt[1]

\* a source with one successful and one later failed record: one entry
\* with one success, one failure, the records of the success, and
\* last_success before last_attempt
C29_Witness ==
    /\ StatusReported
    /\ \E k \in 1..Len(response.body.data_sources) :
           LET entry == response.body.data_sources[k]
           IN  /\ entry.name = "lseg"
               /\ entry.success_count = 1 /\ entry.failure_count = 1
               /\ entry.total_records = 7
               /\ entry.last_success = Some(1) /\ entry.last_attempt = Some(2)

-----------------------------------------------------------------------------
(* Properties of the API Data Collector *)

\* DataCollector() returned: the two required keys are loaded
Constructed(c) == RequiredParameters \subseteq c.api_keys

EnabledSources == SelectSeq(DATA_SOURCES, LAMBDA d : d.enabled)

\* C5: in a run whose collector was constructed, the enabled sources are
\* processed once each and in order whatever the earlier outcomes: the
\* results are at every moment the results of a prefix of the enabled
\* sources, and at the end there is one per enabled source.
C5_EverySourceProcessedOnce ==
    \A r \in active :
        LET c == collector[r]
        IN  /\ Len(c.results) <= Len(EnabledSources)
            /\ \A i \in 1..Len(c.results) : c.results[i].source = EnabledSources[i].key
            /\ (c.pc \in {"respond", "done"} /\ Constructed(c)) =>
                   Len(c.results) = Len(EnabledSources)

\* the first source failed at its upload, and the last one was still
\* fetched, uploaded and recorded
C5_Witness ==
    LET c == collector["r1"]
    IN  /\ c.pc = "done"
        /\ Len(c.results) = 3
        /\ ~c.results[1].success /\ c.results[1].error = Some("S3 save failed")
        /\ c.results[3].success
        /\ \E o \in s3Objects : o.writer = Attempt("r1", "economic")
        /\ \E item \in metadataTable :
              item.attempt = Attempt("r1", "economic") /\ item.success

RECURSIVE SuccessfulRecords(_)
SuccessfulRecords(results) ==
    IF results = <<>> THEN 0
    ELSE (IF Head(results).success THEN Head(results).record_count ELSE 0)
         + SuccessfulRecords(Tail(results))

SuccessCount(results) == Cardinality({i \in 1..Len(results) : results[i].success})

\* C6: the response of a constructed run has status 200 exactly when a
\* source succeeded and 500 when none did; successful_sources is the number
\* of results with success, total_records_collected the sum of record_count
\* over those results.
C6_ResponseTallies ==
    \A r \in active :
        LET c == collector[r]
        IN  (c.pc = "done" /\ Constructed(c)) =>
                /\ c.response.statusCode = 200 <=> SuccessCount(c.response.body.results) > 0
                /\ c.response.statusCode = 500 <=> SuccessCount(c.response.body.results) = 0
                /\ c.response.body.successful_sources
                       = SuccessCount(c.response.body.results)
                /\ c.response.body.total_records_collected
                       = SuccessfulRecords(c.response.body.results)

\* a partial success: one source of three succeeded and the status is 200
C6_Witness ==
    LET c == collector["r1"]
    IN  /\ c.pc = "done"
        /\ Constructed(c)
        /\ Len(c.response.body.results) = 3
        /\ c.response.body.successful_sources = 1
        /\ c.response.body.total_records_collected = 4
        /\ c.response.statusCode = 200

\* C7: a source whose fetch gave no data leaves a metadata record with
\* success false and no object key (a put_item for it was at least
\* attempted), and no object.
C7_NoDataWritesFailureRecord ==
    \A r \in active :
        LET c == collector[r]
        IN  \A i \in 1..Len(c.results) :
                c.results[i].error = Some("No data collected") =>
                    /\ \E call \in putItemCalls :
                          /\ call.item.attempt = Attempt(r, c.results[i].source)
                          /\ ~call.item.success
                          /\ call.item.file_key = None
                    /\ ~\E u \in uploads : u.attempt = Attempt(r, c.results[i].source)

\* C8: every object in the bucket is named by at most one metadata record
C8_OneRecordPerObject ==
    \A o \in s3Objects :
        Cardinality({item \in metadataTable : item.file_key = Some(o.key)}) <= 1

\* C9: a record with success false has no object key and its attempt
\* uploaded nothing; a record with success true names the key of an
\* object its own attempt uploaded.
C9_RecordsMatchUploads ==
    \A item \in metadataTable :
        /\ ~item.success =>
              /\ item.file_key = None
              /\ ~\E u \in uploads : u.attempt = item.attempt
        /\ item.success =>
              /\ item.file_key # None
              /\ [key |-> item.file_key[1], attempt |-> item.attempt] \in uploads

\* a failure record and a success record were both written
C9_Witness ==
    /\ \E item \in metadataTable : ~item.success
    /\ \E item \in metadataTable : item.success
    /\ collector["r1"].pc = "done"

\* the put_item calls made for one fetch-and-store attempt
CallsOf(attempt) == {call \in putItemCalls : call.item.attempt = attempt}

\* C28: for each source of a run the upload comes strictly before the
\* metadata write: while the upload has returned and update_metadata has not
\* been called, no put_item was made for the source; a put_item with success
\* true names the key its own attempt has uploaded; a source whose upload
\* failed has a put_item with success false and no key, and no object; a
\* put_item that succeeded left its record; a put_item that failed after a
\* successful upload left no record, while the object is in the store and
\* the source's result says success with that key.
C28_UploadBeforeMetadata ==
    \A r \in active :
        LET c == collector[r]
        IN  /\ c.pc = "meta" => CallsOf(Attempt(r, CurrentSource(c))) = {}
            /\ (c.pc = "meta" /\ ~c.raised) =>
                   [key |-> c.file_key[1], attempt |-> Attempt(r, CurrentSource(c))] \in uploads
            /\ \A call \in putItemCalls :
                   /\ call.item.success =>
                          /\ call.item.file_key # None
                          /\ [key |-> call.item.file_key[1], attempt |-> call.item.attempt]
                                 \in uploads
                   /\ call.ok => call.item \in metadataTable
            /\ \A i \in 1..Len(c.results) :
                   LET result  == c.results[i]
                       attempt == Attempt(r, result.source)
                   IN  /\ result.error = Some("S3 save failed") =>
                              /\ ~\E u \in uploads : u.attempt = attempt
                              /\ \E call \in CallsOf(attempt) :
                                     ~call.item.success /\ call.item.file_key = None
                       /\ (\E call \in CallsOf(attempt) : call.item.success /\ ~call.ok) =>
                              /\ result.success /\ result.file_key # None
                              /\ \E o \in s3Objects :
                                     o.key = result.file_key[1] /\ o.writer = attempt
                              /\ ~\E item \in metadataTable : item.attempt = attempt

\* a run has ended in which the metadata write of an uploaded source
\* failed: the object is there, no record names it, the result says success
C28_Witness ==
    /\ collector["r1"].pc = "done"
    /\ \E call \in putItemCalls :
           /\ call.item.success /\ ~call.ok
           /\ \E o \in s3Objects : Some(o.key) = call.item.file_key
           /\ ~\E item \in metadataTable : item.file_key = call.item.file_key
           /\ \E i \in 1..Len(collector["r1"].results) :
                  /\ collector["r1"].results[i].success
                  /\ collector["r1"].results[i].file_key = call.item.file_key

-----------------------------------------------------------------------------
(* Properties of the SFTP Collector *)

\* C10: when the run has exited, no SSH connection and no SFTP session
\* that was opened is still open.
C10_ConnectionsClosedOnExit ==
    sftp.pc = "exited" => (sftp.ssh # "open" /\ sftp.session # "open")

\* the names of the listed files, in order
FileNames(files) == [i \in 1..Len(files) |-> files[i].name]

ConnectFailures == ConnectOutcomes \ {"ok"}

\* C11: a file that fails is skipped: the files download_and_process_file
\* has returned for are at every moment a prefix of the listed files, each
\* once and in order, and all of them once the loop is left; the failure of
\* a file raises nothing; the processed list holds one entry for each
\* upload of this run whose call has returned and only keys this run
\* uploaded, so a failed file adds no entry.
C11_FailedFileIsSkipped ==
    sftp.listed =>
        /\ sftp.attempts = SubSeq(FileNames(sftp.files), 1, Len(sftp.attempts))
        /\ sftp.pc \in {"files", "metadata", "finally"} => sftp.raised = "none"
        /\ sftp.pc \in {"finally", "exited"} => sftp.attempts = FileNames(sftp.files)
        /\ Len(sftp.processed_files) + (IF sftp.pc = "metadata" THEN 1 ELSE 0)
               = Cardinality(uploads)
        /\ \A i \in 1..Len(sftp.processed_files) :
               \E u \in uploads : u.key = sftp.processed_files[i]

\* of two listed files the first failed and the second was uploaded
C11_Witness ==
    /\ sftp.pc = "exited"
    /\ Len(sftp.files) = 2
    /\ Len(sftp.attempts) = 2
    /\ Len(sftp.processed_files) = 1
    /\ \E u \in uploads : u.attempt = <<"sftp", sftp.files[2].name>>
    /\ sftp.exit_code = Some(0)

\* C12: a run whose connect_sftp raised (at the key, the connect or the
\* session) listed nothing, attempted no file, uploaded nothing and wrote
\* no metadata; the exception is still in flight at the finally block and
\* the process exits non-zero.
C12_ConnectFailureAbortsRun ==
    sftp.raised \in ConnectFailures =>
        /\ ~sftp.listed
        /\ sftp.attempts = <<>>
        /\ s3Objects = {} /\ uploads = {}
        /\ metadataTable = {} /\ putItemCalls = {}
        /\ sftp.pc \in {"finally", "exited"}
        /\ sftp.pc = "exited" => (sftp.exit_code # None /\ sftp.exit_code # Some(0))

\* the connect step raised and the process exited with code 1
C12_Witness ==
    /\ sftp.pc = "exited"
    /\ sftp.raised = "connect"
    /\ sftp.exit_code = Some(1)

\* the attributes the status and summary routes read from a record
RecordAttributes == {"data_source", "timestamp", "success", "record_count"}

\* C17: every item a collector hands to put_item has data_source and
\* timestamp (the table's key), a boolean success and a record_count, and
\* the data-source status and dashboard summary routes answer 200 on it.
C17_CollectorRecordsReadable ==
    \A call \in putItemCalls :
        /\ RecordAttributes \subseteq DOMAIN call.item
        /\ call.item.success \in BOOLEAN
        /\ get_data_sources_status(Ret(<<call.item>>)).statusCode = 200
        /\ get_dashboard_summary(Ret(<<call.item>>)).statusCode = 200

\* C18: no upload writes to a key that already holds an object: two uploads
\* to the same key are one and the same upload of one attempt.
C18_ObjectsWrittenOnce ==
    \A u1, u2 \in uploads : u1.key = u2.key => u1.attempt = u2.attempt

\* an item as the table stores it (the history field is not an attribute)
Stored(item) == [k \in DOMAIN item \ {"attempt"} |-> item[k]]

\* C19: every step leaves each record of the metadata table in the table
\* with its attributes unchanged.
C19_MetadataAppendOnly ==
    [][\A i \in metadataTable : \E j \in metadataTable' : Stored(j) = Stored(i)]_vars

\* C20: an SFTP Collector started without one of its required settings has
\* made no connection attempt, no listing, no upload and no metadata write,
\* and when it has ended it has exited non-zero.
C20_MissingConfigFailsAtStartup ==
    ~(SftpConfig \subseteq DOMAIN sftp.env) =>
        /\ ~sftp.connect_called /\ sftp.ssh = "none"
        /\ ~sftp.listed
        /\ uploads = {} /\ putItemCalls = {}
        /\ sftp.pc = "exited" => sftp.exit_code # Some(0)

\* the records of the SFTP Collector that are in the table
SftpRecords == {item \in metadataTable : "source" \in DOMAIN item /\ item.source = "lseg_sftp"}

\* C21: when the SFTP run has ended, the table holds as many of its records
\* as it uploaded objects, and every uploaded key is named by a record.
C21_OneRecordPerUpload ==
    sftp.pc = "exited" =>
        /\ Cardinality(SftpRecords) = Cardinality(uploads)
        /\ \A u \in uploads : \E item \in SftpRecords : item.s3_location = u.key

\* C30: once listdir has raised on the established connection the run goes
\* the way of 'no files for today': no file is listed or handed to
\* download_and_process_file, nothing is uploaded, no metadata is put, and
\* the listing's failure is not raised; when the run has exited and no
\* close() raised, both connections are closed and the exit code is 0,
\* which is so whenever the listing's failure is the only fault of the run.
C30_ListingFailureIsNoFiles ==
    sftp.list_raised =>
        /\ sftp.pc \in {"finally", "exited"}
        /\ sftp.files = <<>> /\ sftp.attempts = <<>> /\ sftp.processed_files = <<>>
        /\ uploads = {} /\ s3Objects = {}
        /\ putItemCalls = {} /\ metadataTable = {}
        /\ sftp.raised \in {"none", "sftp_close", "ssh_close"}
        /\ (sftp.pc = "exited" /\ sftp.raised = "none") =>
               /\ sftp.session = "closed" /\ sftp.ssh = "closed"
               /\ sftp.exit_code = Some(0)
        /\ (sftp.pc = "exited" /\ faultsLeft >= MaxFaults - 1) => sftp.raised = "none"

\* listdir raised and the run has exited with code 0, both connections
\* closed and nothing stored
C30_Witness ==
    /\ sftp.list_raised
    /\ sftp.pc = "exited"
    /\ sftp.exit_code = Some(0)
    /\ sftp.session = "closed" /\ sftp.ssh = "closed"
    /\ s3Objects = {} /\ metadataTable = {}

-----------------------------------------------------------------------------
(* Properties of the Weekly Analyzer *)

CompletionRecords == {item \in metadataTable : item.data_source = "weekly_analysis"}

\* C13: a run that was started (its constructor ran) and has ended left
\* exactly one completion record in the metadata table, with error_message
\* present exactly when success is false.
C13_OneCompletionRecord ==
    (analyzer.pc = "exited" /\ analyzer.steps # <<>>) =>
        /\ Cardinality(CompletionRecords) = 1
        /\ \A item \in CompletionRecords :
               ("error_message" \in DOMAIN item) <=> ~item.success

\* the steps after Step 3 have run
AfterInsights ==
    analyzer.pc \in {"report", "save", "save_pdf", "save_chart", "meta", "exit", "exited"}

ReportObjects(kind) == {o \in s3Objects : o.key.layout = "reports/" /\ o.key.name = kind}

\* C14: once the language-model call has raised, the run goes on: it never
\* takes the failure branch and ends with status 'success'; the insights are
\* the fallback text carrying the error, in the PDF and in the JSON result;
\* and when nothing else failed (the call's failure is the only fault of
\* the run) a PDF was produced and is in the object store.
C14_LlmErrorFallsBack ==
    analyzer.llm_failed =>
        /\ analyzer.pc # "fail" /\ analyzer.status # "failed"
        /\ AfterInsights => analyzer.claude_insights = Fallback("APIError")
        /\ analyzer.pdf_file # None => analyzer.pdf_file[1].insights = Fallback("APIError")
        /\ \A o \in ReportObjects("json") \cup ReportObjects("pdf") :
               o.insights = Fallback("APIError")
        /\ analyzer.pc = "exited" =>
               (analyzer.status = "success" /\ analyzer.exit_code = Some(0))
        /\ (analyzer.pc \in {"meta", "exit", "exited"} /\ faultsLeft >= MaxFaults - 1) =>
               /\ analyzer.pdf_file # None
               /\ ReportObjects("pdf") # {}
               /\ ReportObjects("json") # {}

\* the call raised and the run ended with a PDF carrying the fallback text
\* in the object store
C14_Witness ==
    /\ analyzer.llm_failed
    /\ analyzer.pc = "exited"
    /\ analyzer.status = "success"
    /\ \E o \in ReportObjects("pdf") : o.insights = Fallback("APIError")

\* the result of a pass as run_weekly_analysis keeps it
PassResult(name) ==
    CASE name = "power_markets" -> analyzer.analysis_results.power_markets[1]
      [] name = "weather_impact" -> analyzer.analysis_results.weather_impact[1]
      [] name = "economic_indicators" -> analyzer.analysis_results.economic_indicators[1]

PassDefault(name) ==
    CASE name = "power_markets" -> PowerDefault
      [] name = "weather_impact" -> WeatherDefault
      [] name = "economic_indicators" -> EconomicDefault

\* C15: the result of a pass that ended in its except branch is the
\* default empty-shaped result, whatever statement raised.
C15_FailedPassIsEmpty ==
    \A name \in analyzer.raised_in : PassResult(name) = PassDefault(name)

\* C16: a run whose workflow failed has called put_item with a failure
\* record carrying the error message by the time it has its status, and the
\* process then exits non-zero; the process exits zero only with status
\* 'success'.
C16_TerminalFailureRecorded ==
    /\ analyzer.status = "failed" =>
           \E call \in putItemCalls :
               /\ call.item.data_source = "weekly_analysis"
               /\ ~call.item.success
               /\ "error_message" \in DOMAIN call.item
               /\ Some(call.item.error_message) = analyzer.error
    /\ (analyzer.pc = "exited" /\ analyzer.status # "success") =>
           (analyzer.exit_code # None /\ analyzer.exit_code # Some(0))
    /\ analyzer.exit_code = Some(0) => analyzer.status = "success"

\* no dataset was loaded: the failure record is in the table and the
\* process exited with code 1
C16_Witness ==
    /\ analyzer.pc = "exited"
    /\ analyzer.status = "failed"
    /\ analyzer.exit_code = Some(1)
    /\ \E item \in CompletionRecords :
           ~item.success
           /\ item.error_message = FailureMessage("No data available for analysis")

\* the run's data load gave no dataset, and the workflow has returned
NoDataRunEnded ==
    /\ analyzer.pc \in {"exit", "exited"}
    /\ Len(analyzer.steps) >= 2
    /\ analyzer.datasets = NoDatasets

\* C26: a run whose data load gave no dataset ends with status 'failed'
\* (exit code 1) straight after the load: no pass ran, the language model
\* was not called, no chart or PDF was made, nothing was uploaded and no
\* object is under reports/; put_item was called exactly once, with a
\* completion record whose success is false.
C26_NoDataFailsAtOnce ==
    NoDataRunEnded =>
        /\ analyzer.status = "failed"
        /\ analyzer.pc = "exited" => analyzer.exit_code = Some(1)
        /\ analyzer.steps = <<"init", "load">>
        /\ analyzer.analysis_results = NoResults /\ analyzer.raised_in = {}
        /\ analyzer.llm_calls = 0
        /\ analyzer.viz_files = <<>> /\ analyzer.pdf_file = None
        /\ uploads = {}
        /\ \A o \in s3Objects : o.key.layout # "reports/"
        /\ Cardinality(putItemCalls) = 1
        /\ \A call \in putItemCalls :
               /\ call.item.data_source = "weekly_analysis"
               /\ ~call.item.success
               /\ call.item.error_message = FailureMessage("No data available for analysis")
        /\ \A item \in CompletionRecords : ~item.success

\* every object was unreadable: the run ended failed with its one failure
\* record in the table
C26_Witness ==
    /\ NoDataRunEnded
    /\ analyzer.pc = "exited"
    /\ analyzer.steps = <<"init", "load">>
    /\ analyzer.status = "failed"
    /\ Cardinality(CompletionRecords) = 1
    /\ \A item \in CompletionRecords : ~item.success

\* C27: once the success record has been put (and the status is
\* 'success'), the run's JSON result is in the object store, and so is the
\* PDF when one was generated; the record is not put after a PDF rendering
\* that failed or an upload step that returned False.
C27_SuccessMeansUploaded ==
    (\E call \in putItemCalls : call.item.data_source = "weekly_analysis" /\ call.item.success)
        => /\ analyzer.status = "success"
           /\ analyzer.save_success
           /\ analyzer.pdf_file # None
           /\ ReportObjects("json") # {}
           /\ ReportObjects("pdf") # {}

-----------------------------------------------------------------------------
(* Properties of the analysis passes *)

\* the dict a call of analyze_power_markets on a table with price rows returned
PowerReturned ==
    /\ passRun.pc = "returned"
    /\ FilterType(passRun.power_data, "power_prices") # <<>>

\* C22: for a table with price rows the pass reports, for every region
\* present, min <= mean <= max of the price (the rounded figures), and in
\* the summary min_price <= avg_price <= max_price.
C22_MinMeanMax ==
    PowerReturned =>
        LET analysis == passRun.analysis[1]
            regional == analysis.regional_analysis[1]
            total    == analysis.summary[1]
        IN  /\ \A region \in DOMAIN regional :
                   /\ FLeq(regional[region].min, regional[region].mean)
                   /\ FLeq(regional[region].mean, regional[region].max)
            /\ FLeq(total.min_price, total.avg_price)
            /\ FLeq(total.avg_price, total.max_price)

\* the rows of the table given that are tagged power_prices
PriceRowIndexes ==
    {i \in 1..Len(passRun.power_data) : passRun.power_data[i].data_type = "power_prices"}

\* the sum of a column over the rows of the given indexes
RECURSIVE ColumnSum(_, _)
ColumnSum(indexes, column) ==
    IF indexes = {} THEN 0
    ELSE LET i == CHOOSE i \in indexes : TRUE
         IN  passRun.power_data[i][column] + ColumnSum(indexes \ {i}, column)

\* a / b to the nearest whole number, for a, b > 0
RoundDiv(a, b) == (2 * a + b) \div (2 * b)

\* the scenario's two rows, with a renewable-generation row between them
ScenarioTable ==
    << PowerRow("power_prices", "PJM", 4550, 85000, 90000),
       PowerRow("renewable_generation", "PJM", 9999, 1000, 1000),
       PowerRow("power_prices", "CAISO", 5230, 42000, 45000) >>

\* C23: the summary of a table with price rows is computed over exactly the
\* rows tagged power_prices: min_price and max_price are the least and the
\* greatest of their prices, total_demand and total_supply the sums of
\* their demand and supply, and avg_price their arithmetic mean (to six
\* decimals); the scenario's rows give 48.9, 45.50, 52.30, 127000, 135000.
C23_SummaryOverPriceRows ==
    (passRun.pc = "returned" /\ PriceRowIndexes # {}) =>
        LET total  == passRun.analysis[1].summary[1]
            prices == {passRun.power_data[i].price : i \in PriceRowIndexes}
            least  == CHOOSE p \in prices : \A q \in prices : p <= q
            most   == CHOOSE p \in prices : \A q \in prices : q <= p
        IN  /\ total.min_price = FromCents(least)
            /\ total.max_price = FromCents(most)
            /\ total.total_demand = FromInt(ColumnSum(PriceRowIndexes, "demand"))
            /\ total.total_supply = FromInt(ColumnSum(PriceRowIndexes, "supply"))
            /\ Rint(FMulInt(total.avg_price, 1000000)) =
                   RoundDiv(ColumnSum(PriceRowIndexes, "price") * 10000,
                            Cardinality(PriceRowIndexes))
            /\ passRun.power_data = ScenarioTable =>
                   total = [avg_price    |-> FromCents(4890),
                            min_price    |-> FromCents(4550),
                            max_price    |-> FromCents(5230),
                            total_demand |-> FromInt(127000),
                            total_supply |-> FromInt(135000)]

\* the pass returned the summary of the scenario's table
C23_Witness ==
    /\ passRun.pc = "returned"
    /\ passRun.power_data = ScenarioTable
    /\ passRun.analysis[1].summary = Some([avg_price    |-> FromCents(4890),
                                           min_price    |-> FromCents(4550),
                                           max_price    |-> FromCents(5230),
                                           total_demand |-> FromInt(127000),
                                           total_supply |-> FromInt(135000)])

\* the pass returned for readings and a market table that are both non-empty
WeatherReturned ==
    /\ passRun.pc = "returned"
    /\ passRun.weather_data # <<>>
    /\ passRun.power_data # <<>>

\* how many entries of a sequence of rows or events are the reading r
\* (its region, temperature and wind speed)
CountIn(seq, r) ==
    Cardinality({i \in 1..Len(seq) : /\ seq[i].region = r.region
                                      /\ seq[i].temperature = r.temperature
                                      /\ seq[i].wind_speed = r.wind_speed})

\* C24: with readings and a market table that are both non-empty, a reading
\* is in the extreme-events list exactly when it is strictly above the 95th
\* percentile of all the readings given: every row above it has its event
\* (region, temperature and wind speed of the row), and a row at or below
\* it has none.
C24_ExtremeIffAbovePercentile ==
    WeatherReturned =>
        LET events    == passRun.analysis[1].extreme_weather_events
            readings  == passRun.weather_data
            threshold == quantile95(TemperatureColumn(readings))
        IN  \A i \in 1..Len(readings) :
                CountIn(events, readings[i]) =
                    IF 20 * readings[i].temperature > threshold
                    THEN CountIn(readings, readings[i])
                    ELSE 0

\* the historical readings: the percentile is 90, the reading of 95 is
\* listed and the reading of 80 is not
C24_Witness ==
    /\ WeatherReturned
    /\ passRun.weather_data = HistoricalReadings
    /\ quantile95(TemperatureColumn(passRun.weather_data)) = 20 * 90
    /\ passRun.analysis[1].extreme_weather_events =
           << [region |-> "Pennsylvania", temperature |-> 95, wind_speed |-> 7] >>
    /\ \A i \in 1..Len(passRun.analysis[1].extreme_weather_events) :
           passRun.analysis[1].extreme_weather_events[i].temperature # 80

\* C25: tight_markets holds a region exactly when a price row of the region
\* has a supply/demand ratio below 1.1, and holds each such region once,
\* however many price rows the region has.
C25_TightRegionsListedOnce ==
    PowerReturned =>
        LET power_prices  == FilterType(passRun.power_data, "power_prices")
            tight_markets == passRun.analysis[1].supply_demand[1].tight_markets
            listed        == {tight_markets[i] : i \in 1..Len(tight_markets)}
            below         == {power_prices[i].region :
                                 i \in {j \in 1..Len(power_prices) :
                                     FLess(supply_demand_ratio(power_prices[j]),
                                           TightThreshold)}}
        IN  /\ listed = below
            /\ \A i, j \in 1..Len(tight_markets) :
                   tight_markets[i] = tight_markets[j] => i = j

=============================================================================
